---------------------------- MODULE Spec2Model ----------------------------
(***************************************************************************)
(* A model of debby's package database (internal/packages, PackageDB) and  *)
(* of its dependency resolver (internal/packages, Resolver).               *)
(*                                                                         *)
(* A PackageDB is a google/btree ordered by Package.Compare.  The model    *)
(* keeps the tree as the sequence of its items in ascending order and      *)
(* looks items up the way the tree's nodes do (items.find: sort.Search     *)
(* with the comparator, then one more comparison for equality).            *)
(***************************************************************************)
EXTENDS Integers, Sequences, FiniteSets, TLC

(***************************************************************************)
(* An operator that needs a value more than once takes it as a parameter   *)
(* of a helper (named ...At, ...With, ...From), so that the value is       *)
(* written, and evaluated, once.                                           *)
(***************************************************************************)

(***************************************************************************)
(* Strings, versions, architectures                                        *)
(***************************************************************************)

\* Every string the model compares with strings.Compare, in byte order.
Strings == << "", "a", "all", "amd64", "any", "arm64", "b", "c", "d",
              "p", "q", "r", "v", "w" >>

\* The place of a string in that order.
StringIndex == [s \in {Strings[i] : i \in 1..Len(Strings)} |->
                   CHOOSE i \in 1..Len(Strings) : Strings[i] = s]

Sign(n) == IF n < 0 THEN -1 ELSE IF n > 0 THEN 1 ELSE 0

\* strings.Compare
StringsCompare(x, y) == Sign(StringIndex[x] - StringIndex[y])

\* version.Version's zero value: the version of a Package literal that sets
\* none (a query pivot, an unversioned virtual entry).
ZeroVersion == 0

\* A version sorting before the zero value, as "0~rc1" does ("~" sorts
\* before the end of the string).
TildeVersion == 0 - 1

\* version.Version.Compare: versions are integers in the Debian order.
VersionCompare(a, b) == Sign(a - b)

\* arch.Arch's zero value, and its String().
ZeroArch == ""

\* arch.Arch.Is: "all" matches everything, "any" everything but "all",
\* any other architecture itself.
ArchIs(a, b) == \/ a = "all"
                \/ (a = "any" /\ b # "all")
                \/ a = b

(***************************************************************************)
(* types.Package                                                           *)
(***************************************************************************)

\* dependency.Possibility; Operator "" stands for a nil Version.
Possi(name, op, ver) == [Name |-> name, Operator |-> op, Version |-> ver]

\* An unversioned possibility.
Just(name) == Possi(name, "", ZeroVersion)

\* dependency.Relation: alternatives, in declaration order.
Rel(possis) == [Possibilities |-> possis]

\* A concrete types.Package.
Pkg(name, ver, arch, prio, predeps, deps, provides) ==
    [Package |-> name, Version |-> ver, Architecture |-> arch,
     Priority |-> prio, PreDepends |-> predeps, Depends |-> deps,
     Provides |-> provides, IsVirtual |-> FALSE, Providers |-> << >>]

\* The Package literals of the queries: every field but the name and the
\* version at its zero value.
Pivot(name, ver) ==
    [Package |-> name, Version |-> ver, Architecture |-> ZeroArch,
     Priority |-> "", PreDepends |-> << >>, Depends |-> << >>,
     Provides |-> << >>, IsVirtual |-> FALSE, Providers |-> << >>]

\* Package.ID
ID(p) == << p.Package, p.Version, p.Architecture >>

\* Package.Compare's cascade: the first comparison that is not 0.
FirstNonZero(byName, byVersion, byArch) ==
    IF byName # 0 THEN byName
    ELSE IF byVersion # 0 THEN byVersion
    ELSE byArch

\* Package.Compare's last step: architectures that match are equal, others
\* compare as strings.
ArchCompare(x, y) ==
    IF ArchIs(x, y) \/ ArchIs(y, x) THEN 0 ELSE StringsCompare(x, y)

\* Package.Compare
Compare(a, b) ==
    FirstNonZero(StringsCompare(a.Package, b.Package),
                 VersionCompare(a.Version, b.Version),
                 ArchCompare(a.Architecture, b.Architecture))

(***************************************************************************)
(* The ordered tree                                                        *)
(***************************************************************************)

\* The tree's less function.
Less(a, b) == Compare(a, b) < 0

\* sort.Search(n, i -> less(item, s[i])) on [lo, hi), indices from 0.
RECURSIVE Search(_, _, _, _)
Search(s, item, lo, hi) ==
    IF lo >= hi THEN lo
    ELSE IF ~Less(item, s[((lo + hi) \div 2) + 1])
    THEN Search(s, item, ((lo + hi) \div 2) + 1, hi)
    ELSE Search(s, item, lo, (lo + hi) \div 2)

\* items.find, after its search: i items are not above item; the last of
\* them is the item found if it is not below item.
FindAt(s, item, i) == [index |-> i, found |-> i > 0 /\ ~Less(s[i], item)]

\* items.find
Find(s, item) == FindAt(s, item, Search(s, item, 0, Len(s)))

\* s with the item at i replaced, or with item inserted after the first i.
ReplaceOrInsertAt(s, item, at) ==
    IF at.found
    THEN [s EXCEPT ![at.index] = item]
    ELSE SubSeq(s, 1, at.index) \o << item >>
         \o SubSeq(s, at.index + 1, Len(s))

\* BTreeG.ReplaceOrInsert
ReplaceOrInsert(s, item) == ReplaceOrInsertAt(s, item, Find(s, item))

DeleteAt(s, at) ==
    IF at.found
    THEN SubSeq(s, 1, at.index - 1) \o SubSeq(s, at.index + 1, Len(s))
    ELSE s

\* BTreeG.Delete
Delete(s, item) == DeleteAt(s, Find(s, item))

AscendFrom(s, at) ==
    SubSeq(s, IF at.found THEN at.index ELSE at.index + 1, Len(s))

\* BTreeG.AscendGreaterOrEqual: the items the iteration offers, in order.
AscendGreaterOrEqual(s, pivot) == AscendFrom(s, Find(s, pivot))

DescendFrom(s, i) == [k \in 1..i |-> s[i + 1 - k]]

\* BTreeG.DescendLessOrEqual: the items the iteration offers, in order
\* (from the item found, else from the last item below the pivot, down).
DescendLessOrEqual(s, pivot) ==
    DescendFrom(s, Search(s, pivot, 0, Len(s)))

\* What a query's callback has seen when it returns false on the first item
\* of another name: the longest prefix of s whose items are all named name.
NameRun(s, name) ==
    SubSeq(s, 1, CHOOSE k \in 0..Len(s) :
                     /\ \A i \in 1..k : s[i].Package = name
                     /\ k = Len(s) \/ s[k + 1].Package # name)

(***************************************************************************)
(* PackageDB                                                               *)
(***************************************************************************)

\* NewPackageDB
NewPackageDB == << >>

\* PackageDB.Len
DBLen(db) == Len(db)

\* PackageDB.ForEach with a callback that never fails.
ForEach(db) == db

\* The possibilities of a Provides field, relation by relation.
RECURSIVE Flatten(_)
Flatten(rels) ==
    IF rels = << >> THEN << >>
    ELSE Head(rels).Possibilities \o Flatten(Tail(rels))

\* The virtual package literal addPackage and Remove build for a possibility.
VirtualFor(possi) ==
    [Package |-> possi.Name,
     Version |-> IF possi.Operator # "" THEN possi.Version ELSE ZeroVersion,
     Architecture |-> ZeroArch, Priority |-> "", PreDepends |-> << >>,
     Depends |-> << >>, Provides |-> << >>, IsVirtual |-> TRUE,
     Providers |-> << >>]

\* addPackage, lines 217-230: pkg joins the providers of virtualPkg unless
\* it is one of them.
AddProviderTo(tree, pkg, virtualPkg) ==
    IF \E i \in 1..Len(virtualPkg.Providers) :
           Compare(virtualPkg.Providers[i], pkg) = 0
    THEN tree
    ELSE ReplaceOrInsert(tree,
             [virtualPkg EXCEPT !.Providers = Append(@, pkg)])

\* addPackage, lines 212-215: the virtual package stored, else the literal.
AddProviderAt(tree, pkg, literal, at) ==
    AddProviderTo(tree, pkg, IF at.found THEN tree[at.index] ELSE literal)

\* addPackage's loop over the Provides possibilities.
RECURSIVE AddProviders(_, _, _)
AddProviders(tree, pkg, possis) ==
    IF possis = << >> THEN tree
    ELSE AddProviders(
             AddProviderAt(tree, pkg, VirtualFor(Head(possis)),
                           Find(tree, VirtualFor(Head(possis)))),
             pkg, Tail(possis))

\* PackageDB.addPackage
addPackage(db, pkg) ==
    AddProviders(ReplaceOrInsert(db, pkg), pkg, Flatten(pkg.Provides))

\* PackageDB.Add
Add(db, pkg) == addPackage(db, pkg)

\* PackageDB.AddAll
RECURSIVE AddAll(_, _)
AddAll(db, packageList) ==
    IF packageList = << >> THEN db
    ELSE AddAll(addPackage(db, Head(packageList)), Tail(packageList))

\* The providers of a virtual package other than pkg.
RECURSIVE Without(_, _)
Without(providers, pkg) ==
    IF providers = << >> THEN << >>
    ELSE (IF Compare(Head(providers), pkg) # 0
          THEN << Head(providers) >> ELSE << >>)
         \o Without(Tail(providers), pkg)

\* Remove, lines 267-272: a virtual package without providers is deleted,
\* another one stored again.
PutVirtual(tree, virtualPkg) ==
    IF Len(virtualPkg.Providers) = 0
    THEN Delete(tree, virtualPkg)
    ELSE ReplaceOrInsert(tree, virtualPkg)

\* Remove, lines 256-273, for the virtual package literal of a possibility.
RemoveProviderAt(tree, pkg, at) ==
    IF ~at.found THEN tree
    ELSE PutVirtual(tree, [tree[at.index] EXCEPT
                              !.Providers = Without(@, pkg)])

\* Remove's loop over the Provides possibilities.
RECURSIVE RemoveProviders(_, _, _)
RemoveProviders(tree, pkg, possis) ==
    IF possis = << >> THEN tree
    ELSE RemoveProviders(
             RemoveProviderAt(tree, pkg,
                              Find(tree, VirtualFor(Head(possis)))),
             pkg, Tail(possis))

\* PackageDB.Remove
Remove(db, pkg) ==
    RemoveProviders(Delete(db, pkg), pkg, Flatten(pkg.Provides))

\* PackageDB.Get
Get(db, name) ==
    NameRun(AscendGreaterOrEqual(db, Pivot(name, ZeroVersion)), name)

\* The items of s whose version is not version.
RECURSIVE OtherVersions(_, _)
OtherVersions(s, version) ==
    IF s = << >> THEN << >>
    ELSE (IF VersionCompare(Head(s).Version, version) # 0
          THEN << Head(s) >> ELSE << >>)
         \o OtherVersions(Tail(s), version)

\* PackageDB.StrictlyEarlier
StrictlyEarlier(db, name, version) ==
    OtherVersions(NameRun(DescendLessOrEqual(db, Pivot(name, version)), name),
                  version)

\* PackageDB.EarlierOrEqual
EarlierOrEqual(db, name, version) ==
    NameRun(DescendLessOrEqual(db, Pivot(name, version)), name)

\* An ExactlyEqual whose callback takes the first item of the name without
\* comparing its version, unlike the code.
ExactlyEqualUncompared(from, name, version) ==
    IF from # << >> /\ from[1].Package = name
    THEN << from[1] >>
    ELSE << >>

\* ExactlyEqual's callback, which looks at the first item offered only.
ExactlyEqualIn(from, name, version) ==
    IF /\ from # << >>
       /\ from[1].Package = name
       /\ VersionCompare(from[1].Version, version) = 0
    THEN << from[1] >>
    ELSE << >>

\* PackageDB.ExactlyEqual: the package found, as a list of at most one.
ExactlyEqual(db, name, version) ==
    ExactlyEqualIn(AscendGreaterOrEqual(db, Pivot(name, version)), name,
                   version)

\* PackageDB.LaterOrEqual
LaterOrEqual(db, name, version) ==
    NameRun(AscendGreaterOrEqual(db, Pivot(name, version)), name)

\* PackageDB.StrictlyLater
StrictlyLater(db, name, version) ==
    OtherVersions(NameRun(AscendGreaterOrEqual(db, Pivot(name, version)),
                          name), version)

(***************************************************************************)
(* Resolver                                                                *)
(***************************************************************************)

\* The error of a failed call, or "" for none.
NoError == ""

\* types.Package{}
NoPackage == Pivot("", ZeroVersion)

\* resolveVirtualPackage's first loop: the providers found in packageDB.
RECURSIVE VirtualProviders(_, _)
VirtualProviders(packageDB, providers) ==
    IF providers = << >> THEN << >>
    ELSE ExactlyEqual(packageDB, Head(providers).Package,
                      Head(providers).Version)
         \o VirtualProviders(packageDB, Tail(providers))

\* The providers that candidateDB holds (by name and version).
RECURSIVE AlreadySelected(_, _)
AlreadySelected(candidateDB, pkgs) ==
    IF pkgs = << >> THEN << >>
    ELSE (IF ExactlyEqual(candidateDB, Head(pkgs).Package,
                          Head(pkgs).Version) # << >>
          THEN << Head(pkgs) >> ELSE << >>)
         \o AlreadySelected(candidateDB, Tail(pkgs))

\* The providers of priority required.
RECURSIVE Required(_)
Required(pkgs) ==
    IF pkgs = << >> THEN << >>
    ELSE (IF Head(pkgs).Priority = "required"
          THEN << Head(pkgs) >> ELSE << >>)
         \o Required(Tail(pkgs))

\* resolveVirtualPackage, lines 273-279.
ChooseRequired(required) ==
    IF required # << >>
    THEN [err |-> NoError, pkg |-> required[1]]
    ELSE [err |-> "virtual package with multiple installation candidates",
          pkg |-> NoPackage]

\* resolveVirtualPackage, lines 265-279.
ChooseSelected(selected, virtualProviders) ==
    IF selected # << >>
    THEN [err |-> NoError, pkg |-> selected[1]]
    ELSE ChooseRequired(Required(virtualProviders))

\* resolveVirtualPackage, lines 260-280.
ChooseProvider(candidateDB, virtualProviders) ==
    IF Len(virtualProviders) = 0
    THEN [err |-> "unsatisfiable dependency", pkg |-> NoPackage]
    ELSE IF Len(virtualProviders) = 1
    THEN [err |-> NoError, pkg |-> virtualProviders[1]]
    ELSE ChooseSelected(AlreadySelected(candidateDB, virtualProviders),
                        virtualProviders)

\* Resolver.resolveVirtualPackage: [err, pkg].
resolveVirtualPackage(packageDB, candidateDB, virtualPkg) ==
    ChooseProvider(candidateDB,
                   VirtualProviders(packageDB, virtualPkg.Providers))

\* The version relation operators getDependencies knows.
KnownOperators == {"<<", "<=", "=", ">=", ">>"}

\* getDependencies' switch: the packages of packageDB a possibility names.
PackageList(packageDB, possi) ==
    IF possi.Operator = "" THEN Get(packageDB, possi.Name)
    ELSE IF possi.Operator \in {"<<", "<="}
    THEN EarlierOrEqual(packageDB, possi.Name, possi.Version)
    ELSE IF possi.Operator = "="
    THEN ExactlyEqual(packageDB, possi.Name, possi.Version)
    ELSE IF possi.Operator \in {">=", ">>"}
    THEN LaterOrEqual(packageDB, possi.Name, possi.Version)
    ELSE << >>

\* getDependencies, lines 225-231: a virtual package contributes the
\* provider it resolves to, or nothing.
Resolved(res) == IF res.err = NoError THEN << res.pkg >> ELSE << >>

\* getDependencies' "Resolve virtual packages" loop over a package list.
RECURSIVE ResolvedPackages(_, _, _)
ResolvedPackages(packageDB, candidateDB, packageList) ==
    IF packageList = << >> THEN << >>
    ELSE (IF ~Head(packageList).IsVirtual THEN << Head(packageList) >>
          ELSE Resolved(resolveVirtualPackage(packageDB, candidateDB,
                                              Head(packageList))))
         \o ResolvedPackages(packageDB, candidateDB, Tail(packageList))

\* getDependencies' loop over the possibilities of one relation:
\* [err, resolved, pkgs].
RECURSIVE ResolveRelation(_, _, _)

\* A loop that goes on to the later alternatives of a relation that is
\* resolved, unlike the code.
EveryResolved(packageDB, candidateDB, possis, resolvedPackages) ==
    [err |-> NoError,
     resolved |-> Len(resolvedPackages) > 0
                      \/ ResolveRelation(packageDB, candidateDB,
                                         Tail(possis)).resolved,
     pkgs |-> resolvedPackages
                  \o ResolveRelation(packageDB, candidateDB,
                                     Tail(possis)).pkgs]

\* getDependencies, lines 237-241.
FirstResolved(packageDB, candidateDB, possis, resolvedPackages) ==
    IF Len(resolvedPackages) > 0
    THEN [err |-> NoError, resolved |-> TRUE, pkgs |-> resolvedPackages]
    ELSE ResolveRelation(packageDB, candidateDB, Tail(possis))

ResolveRelation(packageDB, candidateDB, possis) ==
    IF possis = << >>
    THEN [err |-> NoError, resolved |-> FALSE, pkgs |-> << >>]
    ELSE IF Head(possis).Operator \notin KnownOperators \cup {""}
    THEN [err |-> "unknown version relation operator", resolved |-> FALSE,
          pkgs |-> << >>]
    ELSE FirstResolved(packageDB, candidateDB, possis,
             ResolvedPackages(packageDB, candidateDB,
                              PackageList(packageDB, Head(possis))))

\* getDependencies' loop over the relations: [err, deps].
RECURSIVE ResolveRelations(_, _, _)

\* getDependencies, lines 238 and 249: the dependencies append up.
AppendDeps(pkgs, rest) ==
    IF rest.err # NoError THEN rest
    ELSE [err |-> NoError, deps |-> pkgs \o rest.deps]

\* getDependencies, lines 244-246.
NextRelation(packageDB, candidateDB, relations, one) ==
    IF one.err # NoError THEN [err |-> one.err, deps |-> << >>]
    ELSE IF ~one.resolved
    THEN [err |-> "unsatisfiable dependency", deps |-> << >>]
    ELSE AppendDeps(one.pkgs,
                    ResolveRelations(packageDB, candidateDB, Tail(relations)))

ResolveRelations(packageDB, candidateDB, relations) ==
    IF relations = << >> THEN [err |-> NoError, deps |-> << >>]
    ELSE NextRelation(packageDB, candidateDB, relations,
             ResolveRelation(packageDB, candidateDB,
                             Head(relations).Possibilities))

\* Resolver.getDependencies: [err, deps].
getDependencies(packageDB, candidateDB, pkg) ==
    ResolveRelations(packageDB, candidateDB, pkg.PreDepends \o pkg.Depends)

\* One scan of pruneUnsatisfied over pkgs: the prune list.
RECURSIVE PruneList(_, _)
PruneList(candidateDB, pkgs) ==
    IF pkgs = << >> THEN << >>
    ELSE (IF getDependencies(candidateDB, candidateDB, Head(pkgs)).err
                 # NoError
          THEN << Head(pkgs) >> ELSE << >>)
         \o PruneList(candidateDB, Tail(pkgs))

\* The removal loop stopping one package short: the slip C8 is to tell from
\* the code.
RECURSIVE RemoveAllButLast(_, _)
RemoveAllButLast(db, pruneList) ==
    IF Len(pruneList) <= 1 THEN db
    ELSE RemoveAllButLast(Remove(db, Head(pruneList)), Tail(pruneList))

\* pruneUnsatisfied's removal loop.
RECURSIVE RemoveAll(_, _)
RemoveAll(db, pruneList) ==
    IF pruneList = << >> THEN db
    ELSE RemoveAll(Remove(db, Head(pruneList)), Tail(pruneList))

(***************************************************************************)
(* Inputs                                                                  *)
(***************************************************************************)

\* The packages of the archive the pools are loaded from.
\*   a 1   Depends: c
\*   a 2   Pre-Depends: b (>= 1)   Depends: v | c (<= 1)
\*   b 1   (Architecture: all)
\*   b 2
\*   c 0~  (a version before the zero value)
\*   c 1   Depends: b (= 1)
\*   p 1   Provides: v   Depends: b (>> 1)
\*   q 1   Provides: v
\*   r 1   Provides: v   Priority: required
Catalogue ==
    << Pkg("a", 1, "amd64", "optional", << >>,
           << Rel(<< Just("c") >>) >>, << >>),
       Pkg("a", 2, "amd64", "optional",
           << Rel(<< Possi("b", ">=", 1) >>) >>,
           << Rel(<< Just("v"), Possi("c", "<=", 1) >>) >>, << >>),
       Pkg("b", 1, "all", "optional", << >>, << >>, << >>),
       Pkg("b", 2, "amd64", "optional", << >>, << >>, << >>),
       Pkg("c", TildeVersion, "amd64", "optional", << >>, << >>, << >>),
       Pkg("c", 1, "amd64", "optional", << >>,
           << Rel(<< Possi("b", "=", 1) >>) >>, << >>),
       Pkg("p", 1, "amd64", "optional", << >>,
           << Rel(<< Possi("b", ">>", 1) >>) >>, << Rel(<< Just("v") >>) >>),
       Pkg("q", 1, "amd64", "optional", << >>, << >>,
           << Rel(<< Just("v") >>) >>),
       Pkg("r", 1, "amd64", "required", << >>, << >>,
           << Rel(<< Just("v") >>) >>) >>

\* The most packages a pool is loaded with.
MaxPool == 5

\* The most requests of a request list.
MaxRequests == 2

\* The items of s at the indices in S, in order.
RECURSIVE Pick(_, _, _)
Pick(s, S, i) ==
    IF i > Len(s) THEN << >>
    ELSE (IF i \in S THEN << s[i] >> ELSE << >>) \o Pick(s, S, i + 1)

\* A request string: name, name=version, or name=<a version that does not
\* parse>.
Request(name, pinned, parses, ver) ==
    [Name |-> name, Pinned |-> pinned, Parses |-> parses, Version |-> ver]

Requests ==
    { Request("a", FALSE, TRUE, ZeroVersion),
      Request("a", TRUE, TRUE, 1),
      Request("a", TRUE, TRUE, 2),
      Request("a", TRUE, FALSE, ZeroVersion),
      Request("p", FALSE, TRUE, ZeroVersion),
      Request("v", FALSE, TRUE, ZeroVersion) }

(***************************************************************************)
(* Component.Packages: errors, streams, Decompress, HashReader             *)
(***************************************************************************)

\* The candidates with the gzip file first, unlike the code.
NamesGzFirst == << "Packages.gz", "Packages.xz", "Packages" >>

\* The candidate filenames, in the order of the loop of Packages.
Names == << "Packages.xz", "Packages.gz", "Packages" >>

\* An error value: its message, the filename the message names and the
\* errors it wraps.
Error(msg, file, wrapped) == [msg |-> msg, file |-> file, errs |-> wrapped]

\* The nil error.
Nil == Error("<nil>", "", << >>)

\* errors.New
New(msg) == Error(msg, "", << >>)

\* fmt.Errorf with one wrapped error (or one status) after the message.
Errorf(msg, file, cause) == Error(msg, file, << cause >>)

\* A Join that forgets the errors joined before, unlike errors.Join.
JoinLast(errs, e) == Error("", "", << e >>)

\* errors.Join(errs, e) with e not nil: a nil errs is dropped, the errors
\* are kept in the order of the arguments.
Join(errs, e) ==
    Error("", "", (IF errs = Nil THEN << >> ELSE << errs >>) \o << e >>)

\* bytes.HasPrefix
HasPrefix(s, prefix) ==
    Len(s) >= Len(prefix) /\ SubSeq(s, 1, Len(prefix)) = prefix

\* The leading bytes of a gzip stream and of an xz stream.
GzipMagic == << 31, 139 >>

XzMagic == << 253, 55, 122, 88, 90, 0 >>

\* The bytes Decompress peeks at.
PeekLen == 8

\* The header bytes gzip.NewReader and xz.NewReader read, and the deflate
\* method a gzip header names.
GzipHeaderLen == 10

GzipDeflate == 8

XzHeaderLen == 12

\* A reader, or the error that there is none.
Reader(e, dr) == [err |-> e, dr |-> dr]

\* gzip.NewReader: the header is read and checked, the reader yields what
\* follows it.
GzipNewReader(r) ==
    IF Len(r) < GzipHeaderLen THEN Reader(New("unexpected EOF"), << >>)
    ELSE IF r[3] # GzipDeflate THEN Reader(New("gzip: invalid header"), << >>)
    ELSE Reader(Nil, SubSeq(r, GzipHeaderLen + 1, Len(r)))

\* xz.NewReader
XzNewReader(r) ==
    IF Len(r) < XzHeaderLen THEN Reader(New("unexpected EOF"), << >>)
    ELSE Reader(Nil, SubSeq(r, XzHeaderLen + 1, Len(r)))

\* Decompress, after a Peek that succeeded.
DecompressPeeked(r, buf) ==
    IF HasPrefix(buf, GzipMagic) THEN GzipNewReader(r)
    ELSE IF HasPrefix(buf, XzMagic) THEN XzNewReader(r)
    ELSE Reader(Nil, r)

\* util.Decompress: Peek(8) fails on a stream of less than eight bytes.
Decompress(r) ==
    IF Len(r) < PeekLen THEN Reader(New("EOF"), << >>)
    ELSE DecompressPeeked(r, SubSeq(r, 1, PeekLen))

\* The digest of a byte string, a byte string itself (never the nil one).
DigestModulus == 65521

RECURSIVE Digest(_, _)
Digest(bytes, h) ==
    IF bytes = << >> THEN h
    ELSE Digest(Tail(bytes), (h * 31 + Head(bytes) + 1) % DigestModulus)

\* sha256 of the bytes read through a HashReader: hr.hasher.Sum(nil).
Sum256(bytes) == << Digest(bytes, 7) >>

\* A Verify that accepts every hash, unlike the code.
VerifyUnchecked(read, expected) == Nil

\* HashReader.Verify on a reader that has read the bytes read.
Verify(read, expected) ==
    IF Sum256(read) # expected THEN New("hash mismatch") ELSE Nil

\* c.SHA256Sums[file]: nil for a filename the table does not list.
Sums(table, file) == IF file \in DOMAIN table THEN table[file] ELSE << >>

\* The leading bytes of a clear-signed stream ("-----") and of a paragraph
\* of a Packages file ("Package:").
SignedMagic == << 45, 45, 45, 45, 45 >>

PackageField == << 80, 97, 99, 107, 97, 103, 101, 58 >>

\* deb822.NewDecoder: a signed stream whose signature does not verify is
\* refused, an unsigned one is accepted.
NewDecoder(dr) ==
    IF HasPrefix(dr, SignedMagic) THEN New("signature invalid") ELSE Nil

\* The packages a Packages file can name, by the byte that stands for their
\* paragraph.
Paragraphs ==
    << [Package |-> "a", Filename |-> "pool/a.deb", URLs |-> << >>],
       [Package |-> "b", Filename |-> "pool/b.deb", URLs |-> << >>] >>

\* Decoder.Decode into a list of packages: the stream is read to its end.
Decode(dr) ==
    IF /\ HasPrefix(dr, PackageField)
       /\ \A i \in Len(PackageField) + 1..Len(dr) :
              dr[i] \in 1..Len(Paragraphs)
    THEN [err |-> Nil,
          packageList |-> [i \in 1..Len(dr) - Len(PackageField) |->
                              Paragraphs[dr[Len(PackageField) + i]]]]
    ELSE [err |-> New("syntax error"), packageList |-> << >>]

\* c.sourceURL
SourceURL == "http://deb/debian"

\* Packages, lines 104-108: the URL of each package joins its URLs.
WithURLs(list) ==
    [i \in 1..Len(list) |->
        [list[i] EXCEPT !.URLs =
            Append(@, SourceURL \o "/" \o list[i].Filename)]]

\* What one iteration of the loop of Packages ends with: the error it
\* records, or the list it returns.
Failure(e) == [err |-> e, packageList |-> << >>]

\* Packages, lines 94-110.
Verified(file, list, e) ==
    IF e # Nil THEN Failure(Errorf("failed to verify file", file, e))
    ELSE [err |-> Nil, packageList |-> WithURLs(list)]

\* Packages, lines 88-97.
Decoded(file, read, table, d) ==
    IF d.err # Nil THEN Failure(Errorf("failed to unmarshal file", file, d.err))
    ELSE Verified(file, d.packageList, Verify(read, Sums(table, file)))

\* Packages, lines 82-92.
DecoderFor(file, read, table, dr, e) ==
    IF e # Nil THEN Failure(Errorf("failed to create decoder", "", e))
    ELSE Decoded(file, read, table, Decode(dr))

\* Packages, lines 76-86.
Decompressed(file, read, table, d) ==
    IF d.err # Nil THEN Failure(Errorf("failed to decompress file", file, d.err))
    ELSE DecoderFor(file, read, table, d.dr, NewDecoder(d.dr))

\* http.StatusOK
StatusOK == 200

\* Packages, lines 62-110: one iteration of the loop, from the answer of
\* httpClient.Do on. The bodies are shorter than the buffer of the
\* decompressor, which reads them whole through the HashReader.
Attempt(file, resp, table) ==
    IF resp.err # Nil
    THEN Failure(Errorf("failed to download file", file, resp.err))
    ELSE IF resp.StatusCode # StatusOK
    THEN Failure(Errorf("failed to download file", file, New(resp.Status)))
    ELSE Decompressed(file, resp.Body, table, Decompress(resp.Body))

\* The answers of httpClient.Do: an error, or a response.
Response(e, code, status, body) ==
    [err |-> e, StatusCode |-> code, Status |-> status, Body |-> body]

\* The error of a request whose context is cancelled.
Canceled == New("context canceled")

\* The files the Release's table is about, by candidate: an xz stream and a
\* gzip stream with their headers, and a plain Packages file.
XzBody ==
    << 253, 55, 122, 88, 90, 0, 0, 4, 230, 214, 180, 70 >>
        \o PackageField \o << 1, 2 >>

GzBody == << 31, 139, 8, 0, 0, 0, 0, 0, 0, 3 >> \o PackageField \o << 1 >>

PlainBody == PackageField \o << 2 >>

Published(file) ==
    CASE file = "Packages.xz" -> XzBody
      [] file = "Packages.gz" -> GzBody
      [] OTHER -> PlainBody

\* The bodies a mirror serves: the published files, a body of four bytes, a
\* gzip stream with a bad header, a body that is no paragraph and a
\* clear-signed body.
Bodies ==
    { XzBody, GzBody, PlainBody,
      << 80, 97, 99, 107 >>,
      << 31, 139, 0, 0, 0, 0, 0, 0, 0, 0 >>,
      << 0, 0, 0, 0, 0, 0, 0, 0 >>,
      SignedMagic \o << 66, 69, 71 >> }

Responses ==
    { Response(New("connection refused"), 0, "", << >>),
      Response(Canceled, 0, "", << >>),
      Response(Nil, 404, "404 Not Found", << >>) }
    \cup { Response(Nil, StatusOK, "200 OK", body) : body \in Bodies }

\* The SHA256Sums of a Component whose Release lists the files in S.
Table(S) == [file \in S |-> Sum256(Published(file))]

\* A call of Component.Packages before its loop.
NoFetch ==
    [ctx |-> "active", SHA256Sums |-> Table({}), name |-> 1,
     requested |-> << >>, resp |-> Response(Nil, 0, "", << >>),
     hr |-> << >>, errs |-> Nil, packageList |-> << >>, err |-> Nil]

(***************************************************************************)
(* Source.Components                                                       *)
(***************************************************************************)

defaultDistribution == "stable"

defaultComponents == << "main" >>

\* NewSource, lines 52-55: the components of the configuration, the
\* defaults when it names none.
SourceComponents(confComponents) ==
    IF Len(confComponents) > 0 THEN confComponents ELSE defaultComponents

\* An InRelease document as a mirror serves it: its signature ("none",
\* "valid" against the keyring, or "invalid"), whether its paragraph parses,
\* the Architectures and Components it lists and whether its SHA256 table
\* parses.
Document(signature, parses, archs, comps, sums) ==
    [signature |-> signature, parses |-> parses, Architectures |-> archs,
     Components |-> comps, sums |-> sums]

NoDocument == Document("none", FALSE, << >>, << >>, FALSE)

\* deb822.NewDecoder on an InRelease document: a signature that does not
\* verify is refused.
NewReleaseDecoder(doc) ==
    IF doc.signature = "invalid" THEN New("signature invalid") ELSE Nil

\* Decoder.Signer: the entity that signed the document, none (nil) for an
\* unsigned one.
Signer(doc) == IF doc.signature = "valid" THEN "archive-key" ELSE ""

\* The zero Release.
NoRelease == [Architectures |-> << >>, Components |-> << >>, sums |-> FALSE]

\* Decoder.Decode into a Release.
DecodeRelease(doc) ==
    IF doc.parses
    THEN [err |-> Nil,
          release |-> [Architectures |-> doc.Architectures,
                       Components |-> doc.Components, sums |-> doc.sums]]
    ELSE [err |-> New("syntax error"), release |-> NoRelease]

\* A path of the Release's table: its directory and its file.
File(dir, file) == [dir |-> dir, file |-> file]

\* Release.SHA256Sums: the table of a Release whose table parses, from the
\* path to the hash.
ReleaseSums ==
    [filename \in { File("main/binary-amd64", "Packages.xz"),
                    File("main/binary-amd64", "Packages.gz"),
                    File("main/binary-all", "Packages"),
                    File("contrib/binary-amd64", "Packages.xz") } |->
        Sum256(Published(filename.file))]

\* path.Base of a component.
Base(component) == IF component = "updates/main" THEN "main" ELSE component

\* Components, line 163
ComponentDir(component, arch) == Base(component) \o "/binary-" \o arch

\* Components, lines 165-170: the entries of the table under componentDir,
\* by the rest of their path (no directory of the table is a proper prefix
\* of another one).
ComponentSums(sums, componentDir) ==
    [file \in {f.file : f \in {g \in DOMAIN sums : g.dir = componentDir}} |->
        sums[File(componentDir, file)]]

\* Components, lines 156-180: the Component of a component and an
\* architecture.
Component(component, arch, sums) ==
    [Name |-> component, Arch |-> arch,
     URL |-> SourceURL \o "/dists/" \o defaultDistribution \o "/"
                 \o component \o "/binary-" \o arch,
     SHA256Sums |-> ComponentSums(sums, ComponentDir(component, arch))]

\* A loop that takes the architectures first and the components second,
\* unlike the code.
RECURSIVE EmitArchMajor(_, _, _)
EmitArchMajor(comps, archs, sums) ==
    IF archs = << >> THEN << >>
    ELSE [i \in 1..Len(comps) |-> Component(comps[i], Head(archs), sums)]
         \o EmitArchMajor(comps, Tail(archs), sums)

\* Components, lines 153-182: the loop over the components and, for each,
\* over the architectures.
RECURSIVE Emit(_, _, _)
Emit(comps, archs, sums) ==
    IF comps = << >> THEN << >>
    ELSE [i \in 1..Len(archs) |-> Component(Head(comps), archs[i], sums)]
         \o Emit(Tail(comps), archs, sums)

\* Components, lines 114-120
AvailableArchitectures(release, targetArch) ==
    SelectSeq(release.Architectures,
              LAMBDA a : ArchIs(a, "all") \/ ArchIs(a, targetArch))

\* Components, lines 127-140
AvailableComponents(release, components) ==
    SelectSeq(release.Components,
              LAMBDA c : \/ \E i \in 1..Len(defaultComponents) :
                                defaultComponents[i] = c
                         \/ \E i \in 1..Len(components) : components[i] = c)

\* What Components returns.
Emitted(components, e) == [components |-> components, err |-> e]

\* Components, lines 122-184, for the architectures and components
\* available.
EmitAvailable(release, archs, comps) ==
    IF Len(archs) = 0 \/ Len(comps) = 0 THEN Emitted(<< >>, Nil)
    ELSE IF ~release.sums
    THEN Emitted(<< >>, Errorf("failed to get SHA256 sums", "",
                               New("malformed hash")))
    ELSE Emitted(Emit(comps, archs, ReleaseSums), Nil)

\* Components, lines 109-184, from the decoded Release on.
Decoded822(d, targetArch, components) ==
    IF d.err # Nil
    THEN Emitted(<< >>, Errorf("failed to unmarshal InRelease file", "",
                               d.err))
    ELSE EmitAvailable(d.release,
                       AvailableArchitectures(d.release, targetArch),
                       AvailableComponents(d.release, components))

\* The Architectures and Components lists of the documents, the components
\* of the configurations and the target architectures.
ArchLists ==
    { << >>, << "all", "amd64" >>, << "amd64", "arm64" >>, << "arm64" >>,
      << "amd64", "all", "amd64" >> }

ComponentLists ==
    { << "main" >>, << "main", "contrib" >>, << "contrib", "main" >>,
      << "non-free" >>, << "updates/main", "main", "updates/main" >> }

ConfComponents == { << >>, << "contrib" >>, << "updates/main" >> }

TargetArchs == { "amd64", "arm64" }

Documents ==
    { Document(sig, parses, archs, comps, sums) :
        sig \in {"none", "valid", "invalid"}, parses \in BOOLEAN,
        archs \in ArchLists, comps \in ComponentLists, sums \in BOOLEAN }

\* The answers of httpClient.Do to the request for InRelease.
ReleaseResponses ==
    { Response(New("connection refused"), 0, "", NoDocument),
      Response(Nil, 404, "404 Not Found", NoDocument) }
    \cup { Response(Nil, StatusOK, "200 OK", doc) : doc \in Documents }

\* A call of Source.Components before its request.
NoSource ==
    [components |-> defaultComponents, targetArch |-> "amd64",
     decoder |-> NoDocument, signer |-> "", release |-> NoRelease,
     emitted |-> Emitted(<< >>, Nil)]

(***************************************************************************)
(* loadPackages (main.go): two stages of workers, each stage an errgroup   *)
(***************************************************************************)

\* A call of loadPackages before its first stage: the sources of the
\* configuration with what each answers (repos), the context and the first
\* error of the stage's errgroup (ctx, gerr), the errors of the workers in
\* the order they returned them (failures), where each worker of the stage
\* is and what it holds (worker, held), the shared component list, the
\* holder of the database's write lock (mu, 0 for none), the database, the
\* workers in the order their AddAll ended (order), what loadPackages
\* returned (ret), the database the resolver was made from (pool), where
\* the workers of the first stage were when its Wait returned (joined) and
\* the number of calls of Packages (calls).
NoLoad ==
    [stage |-> "idle", repos |-> << >>, ctx |-> "live", gerr |-> Nil,
     failures |-> << >>, worker |-> << >>, held |-> << >>,
     components |-> << >>, mu |-> 0, packageDB |-> NewPackageDB,
     order |-> << >>, ret |-> [nilDB |-> TRUE, err |-> Nil],
     pool |-> NewPackageDB, joined |-> << >>, calls |-> 0]

\* What a source answers to Components and a component to Packages.
Answer(e, list) == [err |-> e, list |-> list]

\* A source.Component of source sourceConf, its directory and what its
\* repository answers to Packages.
LoadComponent(sourceConf, dir, answer) ==
    [source |-> sourceConf, dir |-> dir, packages |-> answer]

\* The request of a worker under the stage's context: the cancellation once
\* the context is cancelled, else the answer of the repository.
Under(ctx, answer) ==
    IF ctx = "canceled" THEN Answer(Canceled, << >>) ELSE answer

\* An errgroup that cancels nothing on an error.
GroupFailsQuietly(l, e) ==
    [l EXCEPT !.gerr = IF @ = Nil THEN e ELSE @,
              !.failures = Append(@, e)]

\* errgroup.Group.Go, a worker returning the error e: the first error is
\* kept and cancels the context of the group.
GroupFails(l, e) ==
    [l EXCEPT !.gerr = IF @ = Nil THEN e ELSE @,
              !.ctx = "canceled",
              !.failures = Append(@, e)]

\* A Wait that returns at once.
WaitedForNone(worker) == TRUE

\* errgroup.Group.Wait: every worker of the group has returned.
Waited(worker) ==
    \A i \in 1..Len(worker) : worker[i] \in {"done", "failed"}

\* A worker is at position at.
At(l, i, at) == i \in 1..Len(l.worker) /\ l.worker[i] = at

\* Worker i moves to position at, holding list.
Moved(l, i, at, list) ==
    [l EXCEPT !.worker[i] = at, !.held[i] = list]

\* The workers of a stage as g.Go starts them, and the new group.
Started(l, stage, n) ==
    [l EXCEPT !.stage = stage, !.ctx = "live", !.gerr = Nil,
              !.worker = [i \in 1..n |-> "running"],
              !.held = [i \in 1..n |-> << >>]]

\* loadPackages returns.
Returns(l, nilDB, e) ==
    [l EXCEPT !.stage = "returned", !.ret = [nilDB |-> nilDB, err |-> e]]

\* A call of getDependencies before it is made: the candidates and the
\* package it is called with and what is returned, [err, deps].
NoDependencies ==
    [called |-> FALSE, candidateDB |-> NewPackageDB, pkg |-> NoPackage,
     out |-> [err |-> NoError, deps |-> << >>]]

(***************************************************************************)
(* Resolver.Resolve, phase by phase                                        *)
(***************************************************************************)

VARIABLES
    packageDB,          \* r.packageDB, the pool
    pc,                 \* where Resolve is
    requests,           \* packageNameVersions, as far as the loop has read it
    requestedPackages,  \* name -> the pinned version, if any
    candidateDB,
    queue,
    visited,            \* the IDs the expansion has visited
    selectedDB,
    err,                \* the error Resolve returns, NoError for none
    run,                \* 1: the caller's request list, 2: its result fed back
    first,              \* the selection the first run returned
    fetch,              \* a call of Component.Packages: its locals and results
    source,             \* a call of Source.Components: its locals and results
    load,               \* a call of loadPackages: its workers and results
    dependencies        \* a call of getDependencies: its package and results

vars == << packageDB, pc, requests, requestedPackages, candidateDB, queue,
           visited, selectedDB, err, run, first, fetch, source, load,
           dependencies >>

\* Resolve, line 53: requestedPackages[name] = packageVersion.
Requested(requested, req) ==
    [n \in DOMAIN requested \cup {req.Name} |->
        IF n = req.Name
        THEN [Pinned |-> req.Pinned, Version |-> req.Version]
        ELSE requested[n]]

\* Located without its test of an empty list: the slip C6 is to tell from
\* the code.
LocatedUntested(requested, candidates, packageList) ==
    [err |-> NoError, requestedPackages |-> requested,
     candidateDB |-> AddAll(candidates, packageList)]

\* Resolve, lines 55-69: the packages located for a request join the
\* candidates (Add of the one package of a pinned request is AddAll of a
\* list of one).
Located(requested, candidates, packageList) ==
    IF Len(packageList) = 0
    THEN [err |-> "unable to locate package",
          requestedPackages |-> requested, candidateDB |-> candidates]
    ELSE [err |-> NoError, requestedPackages |-> requested,
          candidateDB |-> AddAll(candidates, packageList)]

\* A first loop that starts the candidates afresh at every request.
SeedAlone(pool, requested, candidates, req) ==
    IF req.Pinned /\ ~req.Parses
    THEN [err |-> "invalid version", requestedPackages |-> requested,
          candidateDB |-> candidates]
    ELSE Located(Requested(requested, req), NewPackageDB,
                 IF req.Pinned
                 THEN ExactlyEqual(pool, req.Name, req.Version)
                 ELSE Get(pool, req.Name))

\* The body of Resolve's first loop for one request:
\* [err, requestedPackages, candidateDB].
Seed(pool, requested, candidates, req) ==
    IF req.Pinned /\ ~req.Parses
    THEN [err |-> "invalid version", requestedPackages |-> requested,
          candidateDB |-> candidates]
    ELSE Located(Requested(requested, req), candidates,
                 IF req.Pinned
                 THEN ExactlyEqual(pool, req.Name, req.Version)
                 ELSE Get(pool, req.Name))

\* Resolve's first loop over a whole request list.
RECURSIVE SeedAll(_, _, _, _)

\* The loop goes on unless a request failed.
SeedNext(pool, reqs, one) ==
    IF one.err # NoError THEN one
    ELSE SeedAll(pool, one.requestedPackages, one.candidateDB, Tail(reqs))

SeedAll(pool, requested, candidates, reqs) ==
    IF reqs = << >>
    THEN [err |-> NoError, requestedPackages |-> requested,
          candidateDB |-> candidates]
    ELSE SeedNext(pool, reqs, Seed(pool, requested, candidates, Head(reqs)))

\* The expansion loop's "for _, pkg := range deps".
RECURSIVE Enqueue(_, _, _, _)
Enqueue(candidates, q, seen, deps) ==
    IF deps = << >> THEN [candidateDB |-> candidates, queue |-> q]
    ELSE IF ID(Head(deps)) \notin seen
    THEN Enqueue(Add(candidates, Head(deps)), Append(q, Head(deps)), seen,
                 Tail(deps))
    ELSE Enqueue(candidates, q, seen, Tail(deps))

\* A selection that rewrites the priority of the package it stores.
SelectOverAltered(selected, pkg, existing) ==
    Add(selected, [pkg EXCEPT !.Priority = "important"])

\* Resolve, lines 128-135: a name selected already keeps its higher version.
SelectOver(selected, pkg, existing) ==
    IF Len(existing) > 0
    THEN IF VersionCompare(pkg.Version, existing[1].Version) > 0
         THEN Add(Remove(selected, existing[1]), pkg)
         ELSE selected
    ELSE Add(selected, pkg)

\* The version selection callback for one candidate.
Select(selected, requested, pkg) ==
    IF pkg.Package \in DOMAIN requested /\ requested[pkg.Package].Pinned
    THEN IF VersionCompare(pkg.Version, requested[pkg.Package].Version) = 0
         THEN Add(selected, pkg)
         ELSE selected
    ELSE SelectOver(selected, pkg, Get(selected, pkg.Package))

\* The version selection loop.
RECURSIVE SelectAll(_, _, _)
SelectAll(selected, requested, pkgs) ==
    IF pkgs = << >> THEN selected
    ELSE SelectAll(Select(selected, requested, Head(pkgs)), requested,
                   Tail(pkgs))

\* The confirmation loop: whether every requested name is still selected.
StillSelected(selected, requested) ==
    \A name \in DOMAIN requested :
        IF requested[name].Pinned
        THEN ExactlyEqual(selected, name, requested[name].Version) # << >>
        ELSE Len(Get(selected, name)) # 0

\* The request list that feeds a selection back: every concrete package as
\* name=version.
RECURSIVE Pinned(_)
Pinned(pkgs) ==
    IF pkgs = << >> THEN << >>
    ELSE (IF Head(pkgs).IsVirtual THEN << >>
          ELSE << Request(Head(pkgs).Package, TRUE, TRUE,
                          Head(pkgs).Version) >>)
         \o Pinned(Tail(pkgs))

Init ==
    /\ packageDB = NewPackageDB
    /\ pc = "load"
    /\ requests = << >>
    /\ requestedPackages = << >>
    /\ candidateDB = NewPackageDB
    /\ queue = << >>
    /\ visited = {}
    /\ selectedDB = NewPackageDB
    /\ err = NoError
    /\ run = 1
    /\ first = NewPackageDB
    /\ fetch = NoFetch
    /\ source = NoSource
    /\ load = NoLoad
    /\ dependencies = NoDependencies

\* loadPackages and NewResolver: the pool is the merge of a package list.
LoadPackages(S) ==
    /\ pc = "load"
    /\ packageDB' = AddAll(NewPackageDB, Pick(Catalogue, S, 1))
    /\ pc' = "seed"
    /\ UNCHANGED << requests, requestedPackages, candidateDB, queue, visited,
                    selectedDB, err, run, first >>
    /\ UNCHANGED << fetch, source, load, dependencies >>

\* Resolve, lines 40-70: one request of the list.
SeedRequestWith(req, one) ==
    /\ requests' = Append(requests, req)
    /\ requestedPackages' = one.requestedPackages
    /\ candidateDB' = one.candidateDB
    /\ err' = one.err
    /\ pc' = IF one.err # NoError THEN "failed" ELSE "seed"

SeedRequest(req) ==
    /\ pc = "seed"
    /\ run = 1
    /\ Len(requests) < MaxRequests
    /\ SeedRequestWith(req, Seed(packageDB, requestedPackages, candidateDB,
                                 req))
    /\ UNCHANGED << packageDB, queue, visited, selectedDB, run, first >>
    /\ UNCHANGED << fetch, source, load, dependencies >>

\* Resolve, lines 76-80: the request list is read, the queue is filled.
BuildQueue ==
    /\ pc = "seed"
    /\ queue' = ForEach(candidateDB)
    /\ visited' = {}
    /\ pc' = "expand"
    /\ UNCHANGED << packageDB, requests, requestedPackages, candidateDB,
                    selectedDB, err, run, first >>
    /\ UNCHANGED << fetch, source, load, dependencies >>

\* Resolve, lines 98-103.
ExpandInto(more) ==
    /\ queue' = more.queue
    /\ candidateDB' = more.candidateDB

\* Resolve, lines 91-103: a package not visited before.
ExpandWith(pkg, res) ==
    /\ visited' = visited \cup {ID(pkg)}
    /\ IF res.err # NoError
       THEN /\ queue' = Tail(queue)
            /\ err' = res.err
            /\ pc' = "failed"
            /\ UNCHANGED candidateDB
       ELSE /\ ExpandInto(Enqueue(candidateDB, Tail(queue),
                                  visited \cup {ID(pkg)}, res.deps))
            /\ UNCHANGED << err, pc >>

\* Resolve, lines 83-104: one iteration of the expansion loop.
Expand ==
    /\ pc = "expand"
    /\ queue # << >>
    /\ IF ID(Head(queue)) \in visited
       THEN /\ queue' = Tail(queue)
            /\ UNCHANGED << candidateDB, visited, err, pc >>
       ELSE ExpandWith(Head(queue),
                       getDependencies(packageDB, candidateDB, Head(queue)))
    /\ UNCHANGED << packageDB, requests, requestedPackages, selectedDB, run,
                    first >>
    /\ UNCHANGED << fetch, source, load, dependencies >>

\* Resolve, line 108: one iteration of pruneUnsatisfied(candidateDB); when
\* it ends the loop, lines 116-138 select the versions.
PruneCandidatesWith(pruneList) ==
    IF Len(pruneList) = 0
    THEN /\ selectedDB' = SelectAll(NewPackageDB, requestedPackages,
                                    ForEach(candidateDB))
         /\ pc' = "reprune"
         /\ UNCHANGED candidateDB
    ELSE /\ candidateDB' = RemoveAll(candidateDB, pruneList)
         /\ pc' = "prune"
         /\ UNCHANGED selectedDB

\* A pruning that works on the pool as well as on the candidates.
PruneCandidatesInPool ==
    /\ pc \in {"expand", "prune"}
    /\ queue = << >>
    /\ PruneCandidatesWith(PruneList(candidateDB, ForEach(candidateDB)))
    /\ packageDB' = RemoveAll(packageDB,
                              PruneList(packageDB, ForEach(packageDB)))
    /\ UNCHANGED << requests, requestedPackages, queue, visited, err, run,
                    first >>
    /\ UNCHANGED << fetch, source, load, dependencies >>

PruneCandidates ==
    /\ pc \in {"expand", "prune"}
    /\ queue = << >>
    /\ PruneCandidatesWith(PruneList(candidateDB, ForEach(candidateDB)))
    /\ UNCHANGED << packageDB, requests, requestedPackages, queue, visited,
                    err, run, first >>
    /\ UNCHANGED << fetch, source, load, dependencies >>

\* Resolve, line 140: one iteration of pruneUnsatisfied(selectedDB); when
\* it ends the loop, lines 145-157 confirm the requests and return.
PruneSelectedWith(pruneList) ==
    IF Len(pruneList) = 0
    THEN /\ IF StillSelected(selectedDB, requestedPackages)
            THEN pc' = "done" /\ err' = NoError
            ELSE pc' = "failed" /\ err' = "requested package is not selected"
         /\ UNCHANGED selectedDB
    ELSE /\ selectedDB' = RemoveAll(selectedDB, pruneList)
         /\ UNCHANGED << pc, err >>

PruneSelected ==
    /\ pc = "reprune"
    /\ PruneSelectedWith(PruneList(selectedDB, ForEach(selectedDB)))
    /\ UNCHANGED << packageDB, requests, requestedPackages, candidateDB,
                    queue, visited, run, first >>
    /\ UNCHANGED << fetch, source, load, dependencies >>

\* A second Resolve on the same pool, with the first selection fed back as
\* pinned requests.
ResolveAgainWith(reqs, all) ==
    /\ requests' = reqs
    /\ requestedPackages' = all.requestedPackages
    /\ candidateDB' = all.candidateDB
    /\ err' = all.err
    /\ pc' = IF all.err # NoError THEN "failed" ELSE "seed"

ResolveAgain ==
    /\ pc = "done"
    /\ run = 1
    /\ ResolveAgainWith(Pinned(ForEach(selectedDB)),
                        SeedAll(packageDB, << >>, NewPackageDB,
                                Pinned(ForEach(selectedDB))))
    /\ first' = selectedDB
    /\ run' = 2
    /\ queue' = << >>
    /\ visited' = {}
    /\ selectedDB' = NewPackageDB
    /\ UNCHANGED packageDB
    /\ UNCHANGED << fetch, source, load, dependencies >>

Next ==
    \/ \E S \in SUBSET (1..Len(Catalogue)) :
           Cardinality(S) <= MaxPool /\ LoadPackages(S)
    \/ \E req \in Requests : SeedRequest(req)
    \/ BuildQueue
    \/ Expand
    \/ PruneCandidates
    \/ PruneSelected
    \/ ResolveAgain

Spec == Init /\ [][Next]_vars

(***************************************************************************)
(* PackageDB on its own: any sequence of Add, AddAll and Remove            *)
(***************************************************************************)

\* The packages the database operations are called with: two architectures
\* of a 1 and its architecture-independent build, a 1 with another Provides
\* field (as another archive may state it), and two versions of b.
\*   a 1 amd64   Provides: v
\*   a 1 amd64   Provides: w
\*   a 1 arm64
\*   a 1 all
\*   b 1 amd64   Provides: v   Priority: required
\*   b 2 amd64   Provides: v (= 1)
\*   c 0~ amd64  (a version before the zero value)
\*   c 1 amd64
DBCatalogue ==
    << Pkg("a", 1, "amd64", "optional", << >>, << >>,
           << Rel(<< Just("v") >>) >>),
       Pkg("a", 1, "amd64", "optional", << >>, << >>,
           << Rel(<< Just("w") >>) >>),
       Pkg("a", 1, "arm64", "optional", << >>, << >>, << >>),
       Pkg("a", 1, "all", "optional", << >>, << >>, << >>),
       Pkg("b", 1, "amd64", "required", << >>, << >>,
           << Rel(<< Just("v") >>) >>),
       Pkg("b", 2, "amd64", "optional", << >>, << >>,
           << Rel(<< Possi("v", "=", 1) >>) >>),
       Pkg("c", TildeVersion, "amd64", "optional", << >>, << >>, << >>),
       Pkg("c", 1, "amd64", "optional", << >>, << >>, << >>) >>

\* The most entries of a database: the items one node of the tree holds.
MaxItems == 3

\* The most packages of one AddAll.
MaxBatch == 2

\* The package lists AddAll is called with.
Batches ==
    UNION { [1..n -> 1..Len(DBCatalogue)] : n \in 0..MaxBatch }

\* The packages of DBCatalogue at the indices of batch.
Batch(batch) == [k \in 1..Len(batch) |-> DBCatalogue[batch[k]]]

InitDB ==
    /\ packageDB = NewPackageDB
    /\ pc = "db"
    /\ requests = << >>
    /\ requestedPackages = << >>
    /\ candidateDB = NewPackageDB
    /\ queue = << >>
    /\ visited = {}
    /\ selectedDB = NewPackageDB
    /\ err = NoError
    /\ run = 1
    /\ first = NewPackageDB
    /\ fetch = NoFetch
    /\ source = NoSource
    /\ load = NoLoad
    /\ dependencies = NoDependencies

\* The database after an operation, while it fits one node.
Store(db) ==
    /\ DBLen(db) <= MaxItems
    /\ packageDB' = db
    /\ UNCHANGED << pc, requests, requestedPackages, candidateDB, queue,
                    visited, selectedDB, err, run, first >>
    /\ UNCHANGED << fetch, source, load, dependencies >>

\* PackageDB.Add
DBAdd(pkg) ==
    /\ pc = "db"
    /\ Store(Add(packageDB, pkg))

\* PackageDB.AddAll
DBAddAll(packageList) ==
    /\ pc = "db"
    /\ Store(AddAll(packageDB, packageList))

\* PackageDB.Remove
DBRemove(pkg) ==
    /\ pc = "db"
    /\ Store(Remove(packageDB, pkg))

NextDB ==
    \/ \E i \in 1..Len(DBCatalogue) : DBAdd(DBCatalogue[i])
    \/ \E batch \in Batches : DBAddAll(Batch(batch))
    \/ \E i \in 1..Len(DBCatalogue) : DBRemove(DBCatalogue[i])

SpecDB == InitDB /\ [][NextDB]_vars

(***************************************************************************)
(* Component.Packages, candidate by candidate                              *)
(***************************************************************************)

\* A Component of a Source whose Release lists some of the candidates, and
\* the call of Packages on it.
InitPackages ==
    /\ packageDB = NewPackageDB
    /\ pc = "packages"
    /\ requests = << >>
    /\ requestedPackages = << >>
    /\ candidateDB = NewPackageDB
    /\ queue = << >>
    /\ visited = {}
    /\ selectedDB = NewPackageDB
    /\ err = NoError
    /\ run = 1
    /\ first = NewPackageDB
    /\ source = NoSource
    /\ load = NoLoad
    /\ dependencies = NoDependencies
    /\ \E S \in SUBSET {Names[i] : i \in 1..Len(Names)} :
           fetch = [NoFetch EXCEPT !.SHA256Sums = Table(S)]

\* Packages, lines 62-110: the locals and results after one iteration that
\* ended with out.
Completed(file, resp, out) ==
    /\ fetch' = [fetch EXCEPT
                    !.ctx = IF resp.err = Canceled THEN "canceled" ELSE @,
                    !.requested = Append(@, file),
                    !.resp = resp,
                    !.hr = resp.Body,
                    !.errs = IF out.err # Nil THEN Join(@, out.err) ELSE @,
                    !.name = IF out.err # Nil THEN @ + 1 ELSE @,
                    !.packageList = out.packageList]
    /\ pc' = IF out.err # Nil THEN "packages" ELSE "returned"

\* Packages, lines 47-111: one iteration of the loop over the candidates;
\* resp is the answer of httpClient.Do, the cancellation once the context
\* is cancelled.
TryCandidate(resp) ==
    /\ pc = "packages"
    /\ fetch.name <= Len(Names)
    /\ fetch.ctx = "canceled" => resp.err = Canceled
    /\ Completed(Names[fetch.name], resp,
                 Attempt(Names[fetch.name], resp, fetch.SHA256Sums))
    /\ UNCHANGED << packageDB, requests, requestedPackages, candidateDB,
                    queue, visited, selectedDB, err, run, first, source,
                    load, dependencies >>

\* Packages, line 113: no candidate is left.
ReturnErrors ==
    /\ pc = "packages"
    /\ fetch.name > Len(Names)
    /\ fetch' = [fetch EXCEPT
                    !.err = Errorf("failed to download Packages file", "",
                                   fetch.errs),
                    !.packageList = << >>]
    /\ pc' = "returned"
    /\ UNCHANGED << packageDB, requests, requestedPackages, candidateDB,
                    queue, visited, selectedDB, err, run, first, source,
                    load, dependencies >>

NextPackages ==
    \/ \E resp \in Responses : TryCandidate(resp)
    \/ ReturnErrors

SpecPackages == InitPackages /\ [][NextPackages]_vars

(***************************************************************************)
(* Source.Components, step by step                                         *)
(***************************************************************************)

\* A Source of a configuration and the call of Components on it.
InitSource ==
    /\ packageDB = NewPackageDB
    /\ pc = "components"
    /\ requests = << >>
    /\ requestedPackages = << >>
    /\ candidateDB = NewPackageDB
    /\ queue = << >>
    /\ visited = {}
    /\ selectedDB = NewPackageDB
    /\ err = NoError
    /\ run = 1
    /\ first = NewPackageDB
    /\ fetch = NoFetch
    /\ load = NoLoad
    /\ dependencies = NoDependencies
    /\ \E conf \in ConfComponents : \E target \in TargetArchs :
           source = [NoSource EXCEPT !.components = SourceComponents(conf),
                                     !.targetArch = target]

\* Components returns e and no Component.
SourceFails(e) ==
    /\ source' = [source EXCEPT !.emitted = Emitted(<< >>, e)]
    /\ pc' = "returned"

\* Components, lines 78-103: the request for InRelease and the decoder of
\* its body.
GetInRelease(resp) ==
    /\ pc = "components"
    /\ IF resp.err # Nil
       THEN SourceFails(Errorf("failed to download InRelease file", "",
                               resp.err))
       ELSE IF resp.StatusCode # StatusOK
       THEN SourceFails(Errorf("failed to download InRelease file", "",
                               New(resp.Status)))
       ELSE IF NewReleaseDecoder(resp.Body) # Nil
       THEN SourceFails(Errorf("failed to create decoder", "",
                               NewReleaseDecoder(resp.Body)))
       ELSE /\ source' = [source EXCEPT !.decoder = resp.Body]
            /\ pc' = "signer"
    /\ UNCHANGED << packageDB, requests, requestedPackages, candidateDB,
                    queue, visited, selectedDB, err, run, first, fetch,
                    load, dependencies >>

\* A Components that takes the signer as it is, unlike the code.
CheckSignerSkipped ==
    /\ pc = "signer"
    /\ source' = [source EXCEPT !.signer = Signer(source.decoder)]
    /\ pc' = "decode"
    /\ UNCHANGED << packageDB, requests, requestedPackages, candidateDB,
                    queue, visited, selectedDB, err, run, first, fetch,
                    load, dependencies >>

\* Components, lines 105-107: the document must be signed.
CheckSigner ==
    /\ pc = "signer"
    /\ IF Signer(source.decoder) = ""
       THEN SourceFails(New("InRelease file is not signed"))
       ELSE /\ source' = [source EXCEPT !.signer = Signer(source.decoder)]
            /\ pc' = "decode"
    /\ UNCHANGED << packageDB, requests, requestedPackages, candidateDB,
                    queue, visited, selectedDB, err, run, first, fetch,
                    load, dependencies >>

\* Components, lines 109-184: the Release is decoded and the Components
\* are returned.
DecodeAndEmit(d) ==
    /\ source' = [source EXCEPT
                     !.release = d.release,
                     !.emitted = Decoded822(d, source.targetArch,
                                            source.components)]
    /\ pc' = "returned"

EmitComponents ==
    /\ pc = "decode"
    /\ DecodeAndEmit(DecodeRelease(source.decoder))
    /\ UNCHANGED << packageDB, requests, requestedPackages, candidateDB,
                    queue, visited, selectedDB, err, run, first, fetch,
                    load, dependencies >>

NextSource ==
    \/ \E resp \in ReleaseResponses : GetInRelease(resp)
    \/ CheckSigner
    \/ EmitComponents

SpecSource == InitSource /\ [][NextSource]_vars

(***************************************************************************)
(* loadPackages, worker by worker                                          *)
(***************************************************************************)

\* The most sources of a configuration.
MaxSources == 2

\* The package lists of the Packages files, from DBCatalogue:
\*   a 1 amd64 (Provides: v)
\*   a 1 amd64 (Provides: w)
\*   a 1 all
\*   b 1 amd64 (Provides: v)
\*   a 1 arm64, c 1 amd64
Contents ==
    { Batch(<< 1 >>), Batch(<< 2 >>), Batch(<< 4 >>), Batch(<< 5 >>),
      Batch(<< 3, 8 >>) }

\* What a component's repository answers to Packages: a package list, or no
\* candidate file that can be used.
PackagesAnswers ==
    { Answer(Nil, list) : list \in Contents }
        \cup { Answer(New("failed to download package list"), << >>) }

\* What source i answers to Components: an error, no component, one, or
\* two that list the same packages (as binary-amd64 and binary-all both
\* list the packages of architecture all).
Listings(i) ==
    { Answer(New("failed to get InRelease"), << >>), Answer(Nil, << >>) }
        \cup { Answer(Nil, << LoadComponent(i, 1, x) >>) :
                   x \in PackagesAnswers }
        \cup { Answer(Nil, << LoadComponent(i, 1, x),
                              LoadComponent(i, 2, x) >>) :
                   x \in PackagesAnswers }

\* The entries a package list makes: its packages and the virtual packages
\* they provide.
EntriesOf(list) ==
    UNION { {ID(list[k])}
                \cup { ID(VirtualFor(Flatten(list[k].Provides)[n])) :
                           n \in 1..Len(Flatten(list[k].Provides)) } :
            k \in 1..Len(list) }

\* The entries the repositories make together.
AllEntries(repos) ==
    UNION { UNION { EntriesOf(repos[i].list[k].packages.list) :
                    k \in 1..Len(repos[i].list) } :
            i \in 1..Len(repos) }

InitLoad ==
    /\ packageDB = NewPackageDB
    /\ pc = "load"
    /\ requests = << >>
    /\ requestedPackages = << >>
    /\ candidateDB = NewPackageDB
    /\ queue = << >>
    /\ visited = {}
    /\ selectedDB = NewPackageDB
    /\ err = NoError
    /\ run = 1
    /\ first = NewPackageDB
    /\ fetch = NoFetch
    /\ source = NoSource
    /\ dependencies = NoDependencies
    /\ \E n \in 1..MaxSources :
       \E repos \in [1..n -> UNION { Listings(i) : i \in 1..MaxSources }] :
           /\ \A i \in 1..n : repos[i] \in Listings(i)
           /\ Cardinality(AllEntries(repos)) <= MaxItems
           /\ load = Started([NoLoad EXCEPT !.repos = repos], "sources", n)

\* The locals of the other operations.
LoadOnly ==
    UNCHANGED << packageDB, pc, requests, requestedPackages, candidateDB,
                 queue, visited, selectedDB, err, run, first, fetch,
                 source, dependencies >>

\* A worker's request has returned answer: the worker holds the list, or
\* returns the error wrapped in message.
Answered(l, i, answer, message) ==
    load' = IF answer.err # Nil
            THEN GroupFails(Moved(l, i, "failed", << >>),
                            Errorf(message, "", answer.err))
            ELSE Moved(l, i, "got", answer.list)

\* main.go 176-188: the worker of source i calls NewSource and Components.
GetComponents(i) ==
    /\ load.stage = "sources"
    /\ At(load, i, "running")
    /\ Answered(load, i, Under(load.ctx, load.repos[i]),
                "failed to get components")
    /\ LoadOnly

\* An append to the list as it was before any worker appended, as without
\* componentsMu a worker may do.
AppendComponentsStale(i) ==
    /\ load.stage = "sources"
    /\ At(load, i, "got")
    /\ load' = [Moved(load, i, "done", << >>) EXCEPT
                   !.components = load.held[i]]
    /\ LoadOnly

\* main.go 190-194: the worker of source i appends its components to the
\* shared list, under componentsMu.
AppendComponents(i) ==
    /\ load.stage = "sources"
    /\ At(load, i, "got")
    /\ load' = [Moved(load, i, "done", << >>) EXCEPT
                   !.components = @ \o load.held[i]]
    /\ LoadOnly

\* main.go 198-209 when g.Wait returned e: the error, or the second stage
\* with a new database and a worker for each component.
AfterSources(e) ==
    load' = IF e # Nil
            THEN Returns([load EXCEPT !.joined = load.worker], TRUE,
                         Errorf("failed to get components", "", e))
            ELSE Started([load EXCEPT !.joined = load.worker,
                                      !.packageDB = NewPackageDB],
                         "packages", Len(load.components))

\* main.go 198-209
WaitSources ==
    /\ load.stage = "sources"
    /\ Waited(load.worker)
    /\ AfterSources(load.gerr)
    /\ LoadOnly

\* main.go 237-240: the worker of component j calls Packages.
GetPackages(j) ==
    /\ load.stage = "packages"
    /\ At(load, j, "running")
    /\ Answered([load EXCEPT !.calls = @ + 1], j,
                Under(load.ctx, load.components[j].packages),
                "failed to get packages")
    /\ LoadOnly

\* A Lock that lets everyone in.
LockableAlways(mu) == TRUE

\* sync.RWMutex.Lock: nobody holds the lock.
Lockable(mu) == mu = 0

\* main.go 242, AddAll's Lock (database.go): worker j takes the write lock.
LockDB(j) ==
    /\ load.stage = "packages"
    /\ At(load, j, "got")
    /\ Lockable(load.mu)
    /\ load' = [Moved(load, j, "adding", load.held[j]) EXCEPT !.mu = j]
    /\ LoadOnly

\* AddAll's loop, addPackage's ReplaceOrInsert: worker j stores the next
\* package of its list.
InsertNext(j) ==
    /\ load.stage = "packages"
    /\ At(load, j, "adding")
    /\ load.held[j] # << >>
    /\ load' = [Moved(load, j, "inserted", load.held[j]) EXCEPT
                   !.packageDB = ReplaceOrInsert(@, Head(load.held[j]))]
    /\ LoadOnly

\* addPackage's loop over the Provides of the package worker j has stored.
ProvideNext(j) ==
    /\ load.stage = "packages"
    /\ At(load, j, "inserted")
    /\ load' = [Moved(load, j, "adding", Tail(load.held[j])) EXCEPT
                   !.packageDB = AddProviders(@, Head(load.held[j]),
                                     Flatten(Head(load.held[j]).Provides))]
    /\ LoadOnly

\* AddAll's Unlock: worker j is done.
UnlockDB(j) ==
    /\ load.stage = "packages"
    /\ At(load, j, "adding")
    /\ load.held[j] = << >>
    /\ load' = [Moved(load, j, "done", << >>) EXCEPT
                   !.mu = 0, !.order = Append(@, j)]
    /\ LoadOnly

\* main.go 248-259: loadPackages returns the error of g.Wait and no
\* database, or the database.
WaitPackages ==
    /\ load.stage = "packages"
    /\ Waited(load.worker)
    /\ load' = IF load.gerr # Nil
               THEN Returns(load, TRUE,
                            Errorf("failed to get packages", "", load.gerr))
               ELSE Returns(load, FALSE, Nil)
    /\ LoadOnly

\* main.go 111-119: the Action returns the error, or makes the resolver
\* from the database.
NewResolver ==
    /\ load.stage = "returned"
    /\ load' = IF load.ret.err # Nil
               THEN [load EXCEPT !.stage = "exited"]
               ELSE [load EXCEPT !.stage = "resolving",
                                 !.pool = load.packageDB]
    /\ LoadOnly

\* The most components of all sources together.
MaxWorkers == 2 * MaxSources

NextLoad ==
    \/ \E i \in 1..MaxSources : GetComponents(i)
    \/ \E i \in 1..MaxSources : AppendComponents(i)
    \/ WaitSources
    \/ \E j \in 1..MaxWorkers : GetPackages(j)
    \/ \E j \in 1..MaxWorkers : LockDB(j)
    \/ \E j \in 1..MaxWorkers : InsertNext(j)
    \/ \E j \in 1..MaxWorkers : ProvideNext(j)
    \/ \E j \in 1..MaxWorkers : UnlockDB(j)
    \/ WaitPackages
    \/ NewResolver

SpecLoad == InitLoad /\ [][NextLoad]_vars

(***************************************************************************)
(* Resolver.getDependencies, call by call                                  *)
(***************************************************************************)

\* The packages of the pools getDependencies is asked about:
\*   p 1  Provides: v
\*   q 1  Provides: p (= 1)
\*   r 1  Provides: v, of priority required
\*   b 1
\*   b 2
\*   a 1  Depends: v | b
\*   c 1  Pre-Depends: w | b (<= 1); Depends: b (>> 1)
\*   d 1  Depends: b (= 2), w
\* (no package is named w or provides it).
DepsCatalogue ==
    << Pkg("p", 1, "amd64", "optional", << >>, << >>,
           << Rel(<< Just("v") >>) >>),
       Pkg("q", 1, "amd64", "optional", << >>, << >>,
           << Rel(<< Possi("p", "=", 1) >>) >>),
       Pkg("r", 1, "amd64", "required", << >>, << >>,
           << Rel(<< Just("v") >>) >>),
       Pkg("b", 1, "amd64", "optional", << >>, << >>, << >>),
       Pkg("b", 2, "amd64", "optional", << >>, << >>, << >>),
       Pkg("a", 1, "amd64", "optional", << >>,
           << Rel(<< Just("v"), Just("b") >>) >>, << >>),
       Pkg("c", 1, "amd64", "optional",
           << Rel(<< Just("w"), Possi("b", "<=", 1) >>) >>,
           << Rel(<< Possi("b", ">>", 1) >>) >>, << >>),
       Pkg("d", 1, "amd64", "optional", << >>,
           << Rel(<< Possi("b", "=", 2) >>), Rel(<< Just("w") >>) >>,
           << >>) >>

\* The most candidates at a call of getDependencies.
MaxCandidates == 2

InitDeps ==
    /\ pc = "deps"
    /\ requests = << >>
    /\ requestedPackages = << >>
    /\ candidateDB = NewPackageDB
    /\ queue = << >>
    /\ visited = {}
    /\ selectedDB = NewPackageDB
    /\ err = NoError
    /\ run = 1
    /\ first = NewPackageDB
    /\ fetch = NoFetch
    /\ source = NoSource
    /\ load = NoLoad
    /\ dependencies = NoDependencies
    /\ \E S \in SUBSET (1..Len(DepsCatalogue)) :
           packageDB = AddAll(NewPackageDB, Pick(DepsCatalogue, S, 1))

\* Resolve, lines 55-69 and 99: a package of the pool joins the candidates.
AddCandidate(i) ==
    /\ pc = "deps"
    /\ i \in 1..Len(packageDB)
    /\ ~packageDB[i].IsVirtual
    /\ Cardinality({ n \in 1..Len(candidateDB) :
                         ~candidateDB[n].IsVirtual }) < MaxCandidates
    /\ candidateDB' = Add(candidateDB, packageDB[i])
    /\ UNCHANGED << packageDB, pc, requests, requestedPackages, queue,
                    visited, selectedDB, err, run, first, fetch, source,
                    load, dependencies >>

\* Resolve, line 92: getDependencies is called for a package of the pool.
GetDependencies(i) ==
    /\ pc = "deps"
    /\ i \in 1..Len(packageDB)
    /\ ~packageDB[i].IsVirtual
    /\ dependencies' =
           [called |-> TRUE, candidateDB |-> candidateDB,
            pkg |-> packageDB[i],
            out |-> getDependencies(packageDB, candidateDB, packageDB[i])]
    /\ UNCHANGED << packageDB, pc, requests, requestedPackages, candidateDB,
                    queue, visited, selectedDB, err, run, first, fetch,
                    source, load >>

\* The most entries of a pool of DepsCatalogue: its packages and the
\* virtual packages v and p.
MaxEntries == Len(DepsCatalogue) + 2

NextDeps ==
    \/ \E i \in 1..MaxEntries : AddCandidate(i)
    \/ \E i \in 1..MaxEntries : GetDependencies(i)

SpecDeps == InitDeps /\ [][NextDeps]_vars

(***************************************************************************)
(* The expansion of Resolve over pools with cyclic dependencies            *)
(***************************************************************************)

\* The packages of the pools with cycles:
\*   a 1  Depends: b
\*   b 1  Depends: c
\*   b 2  Depends: a (>= 1)
\*   c 1 amd64  Depends: a
\*   c 1 arm64
\*   c 1 all
\*   d 1  Pre-Depends: d; Depends: a | q
\*   p 1  Depends: q; Provides: v
\*   q 1  Depends: v
CyclicCatalogue ==
    << Pkg("a", 1, "amd64", "optional", << >>,
           << Rel(<< Just("b") >>) >>, << >>),
       Pkg("b", 1, "amd64", "optional", << >>,
           << Rel(<< Just("c") >>) >>, << >>),
       Pkg("b", 2, "amd64", "optional", << >>,
           << Rel(<< Possi("a", ">=", 1) >>) >>, << >>),
       Pkg("c", 1, "amd64", "optional", << >>,
           << Rel(<< Just("a") >>) >>, << >>),
       Pkg("c", 1, "arm64", "optional", << >>, << >>, << >>),
       Pkg("c", 1, "all", "optional", << >>, << >>, << >>),
       Pkg("d", 1, "amd64", "optional",
           << Rel(<< Just("d") >>) >>,
           << Rel(<< Just("a"), Just("q") >>) >>, << >>),
       Pkg("p", 1, "amd64", "optional", << >>,
           << Rel(<< Just("q") >>) >>, << Rel(<< Just("v") >>) >>),
       Pkg("q", 1, "amd64", "optional", << >>,
           << Rel(<< Just("v") >>) >>, << >>) >>

\* The names Resolve is asked for over these pools.
CyclicNames == {"a", "b", "d", "q"}

\* Resolve, lines 40-70, for one request of a name without a version that
\* is located: the candidates are seeded.
Seeded(one) ==
    /\ one.err = NoError
    /\ requestedPackages = one.requestedPackages
    /\ candidateDB = one.candidateDB

InitExpand ==
    /\ pc = "seed"
    /\ queue = << >>
    /\ visited = {}
    /\ selectedDB = NewPackageDB
    /\ err = NoError
    /\ run = 1
    /\ first = NewPackageDB
    /\ fetch = NoFetch
    /\ source = NoSource
    /\ load = NoLoad
    /\ dependencies = NoDependencies
    /\ \E S \in SUBSET (1..Len(CyclicCatalogue)) :
           /\ Cardinality(S) <= MaxPool
           /\ packageDB = AddAll(NewPackageDB, Pick(CyclicCatalogue, S, 1))
    /\ \E name \in CyclicNames :
           /\ requests = << Request(name, FALSE, TRUE, ZeroVersion) >>
           /\ Seeded(Seed(packageDB, << >>, NewPackageDB,
                          Request(name, FALSE, TRUE, ZeroVersion)))

NextExpand ==
    \/ BuildQueue
    \/ Expand

SpecExpand == InitExpand /\ [][NextExpand]_vars

(***************************************************************************)
(* Resolve on request lists in both orders.                                *)
(***************************************************************************)

\* Pools whose virtual package a sorts before its providers p and q:
\*   p 1  Provides: a
\*   q 1  Provides: a
\*   b 1  Depends: a
\*   c 1  (architecture all)  Depends: b | p
\*   d 1  Depends: w
\* (no package is named w or provides it).
OrderCatalogue ==
    << Pkg("p", 1, "amd64", "optional", << >>, << >>,
           << Rel(<< Just("a") >>) >>),
       Pkg("q", 1, "amd64", "optional", << >>, << >>,
           << Rel(<< Just("a") >>) >>),
       Pkg("b", 1, "amd64", "optional", << >>,
           << Rel(<< Just("a") >>) >>, << >>),
       Pkg("c", 1, "all", "optional", << >>,
           << Rel(<< Just("b"), Just("p") >>) >>, << >>),
       Pkg("d", 1, "amd64", "optional", << >>,
           << Rel(<< Just("w") >>) >>, << >>) >>

\* The requests made over these pools.
OrderRequests ==
    { Request("a", FALSE, TRUE, ZeroVersion),
      Request("b", FALSE, TRUE, ZeroVersion),
      Request("b", TRUE, TRUE, 1),
      Request("c", FALSE, TRUE, ZeroVersion),
      Request("d", FALSE, TRUE, ZeroVersion),
      Request("p", FALSE, TRUE, ZeroVersion),
      Request("q", FALSE, TRUE, ZeroVersion) }

\* NewResolver on a pool of OrderCatalogue, before the first request is read.
InitOrder ==
    /\ pc = "seed"
    /\ requests = << >>
    /\ requestedPackages = << >>
    /\ candidateDB = NewPackageDB
    /\ queue = << >>
    /\ visited = {}
    /\ selectedDB = NewPackageDB
    /\ err = NoError
    /\ run = 1
    /\ first = NewPackageDB
    /\ fetch = NoFetch
    /\ source = NoSource
    /\ load = NoLoad
    /\ dependencies = NoDependencies
    /\ \E S \in SUBSET (1..Len(OrderCatalogue)) :
           packageDB = AddAll(NewPackageDB, Pick(OrderCatalogue, S, 1))

NextOrder ==
    \/ \E req \in OrderRequests : SeedRequest(req)
    \/ BuildQueue
    \/ Expand
    \/ PruneCandidates
    \/ PruneSelected

SpecOrder == InitOrder /\ [][NextOrder]_vars

\* Resolve, lines 83-104: the expansion loop as a whole: [err, candidateDB].
RECURSIVE ExpandAll(_, _, _, _)
ExpandAll(pool, candidates, q, seen) ==
    IF q = << >> THEN [err |-> NoError, candidateDB |-> candidates]
    ELSE IF ID(Head(q)) \in seen
    THEN ExpandAll(pool, candidates, Tail(q), seen)
    ELSE LET res == getDependencies(pool, candidates, Head(q))
             more == Enqueue(candidates, Tail(q), seen \cup {ID(Head(q))},
                             res.deps)
         IN  IF res.err # NoError
             THEN [err |-> res.err, candidateDB |-> candidates]
             ELSE ExpandAll(pool, more.candidateDB, more.queue,
                            seen \cup {ID(Head(q))})

\* Resolver.pruneUnsatisfied: scans and removals until a scan removes
\* nothing.
RECURSIVE pruneUnsatisfied(_)
pruneUnsatisfied(db) ==
    IF Len(PruneList(db, ForEach(db))) = 0 THEN db
    ELSE pruneUnsatisfied(RemoveAll(db, PruneList(db, ForEach(db))))

\* Resolve, lines 106-157, on the candidates of the expansion: [err, db].
Selection(requested, candidates) ==
    LET selected == pruneUnsatisfied(
                        SelectAll(NewPackageDB, requested,
                                  ForEach(pruneUnsatisfied(candidates))))
    IN  IF StillSelected(selected, requested)
        THEN [err |-> NoError, db |-> selected]
        ELSE [err |-> "requested package is not selected",
              db |-> NewPackageDB]

\* Resolve, lines 76-157, on the outcome of the first loop: [err, db].
Expanded(pool, seeded) ==
    IF seeded.err # NoError THEN [err |-> seeded.err, db |-> NewPackageDB]
    ELSE LET all == ExpandAll(pool, seeded.candidateDB,
                              ForEach(seeded.candidateDB), {})
         IN  IF all.err # NoError
             THEN [err |-> all.err, db |-> NewPackageDB]
             ELSE Selection(seeded.requestedPackages, all.candidateDB)

\* Resolver.Resolve as a whole: [err, db], db being empty on an error.
Resolve(pool, reqs) ==
    Expanded(pool, SeedAll(pool, << >>, NewPackageDB, reqs))

(***************************************************************************)
(* What the claims speak of                                                *)
(***************************************************************************)

\* Resolve has returned a selection and no error.
Returned == pc = "done"

\* The entries of a database, the concrete ones, and those of a name.
Entries(db) == {db[i] : i \in 1..Len(db)}

ConcreteEntries(db) == {e \in Entries(db) : ~e.IsVirtual}

ConcreteNamed(db, name) == {e \in ConcreteEntries(db) : e.Package = name}

\* Whether a version meets the constraint of a possibility, in the Debian
\* meaning of the operators.
Meets(ver, possi) ==
    CASE possi.Operator = "" -> TRUE
      [] possi.Operator = "<<" -> ver < possi.Version
      [] possi.Operator = "<=" -> ver <= possi.Version
      [] possi.Operator = "=" -> ver = possi.Version
      [] possi.Operator = ">=" -> ver >= possi.Version
      [] possi.Operator = ">>" -> ver > possi.Version
      [] OTHER -> FALSE

\* Whether possi is satisfied within db: by a concrete entry of its name
\* that meets its constraint, or by such a virtual entry one of whose
\* providers is a concrete entry of db.
SatisfiedIn(db, possi) ==
    \E e \in Entries(db) :
        /\ e.Package = possi.Name
        /\ Meets(e.Version, possi)
        /\ \/ ~e.IsVirtual
           \/ \E k \in 1..Len(e.Providers) :
                  \E c \in ConcreteEntries(db) : ID(c) = ID(e.Providers[k])

\* Whether every relation of every entry of db is satisfied within db.
Closed(db) ==
    \A p \in Entries(db) :
        \A k \in 1..Len(p.PreDepends \o p.Depends) :
            \E possi \in Entries((p.PreDepends \o p.Depends)[k].Possibilities) :
                SatisfiedIn(db, possi)

\* Whether an entry matches a request: the name, and the version of a
\* request name=version.
Matches(e, req) ==
    /\ e.Package = req.Name
    /\ req.Pinned => e.Version = req.Version

\* Whether a package provides a name.
ProvidesName(e, name) ==
    \E possi \in Entries(Flatten(e.Provides)) : possi.Name = name

\* C1: when Resolve succeeds, every Pre-Depends and Depends relation of every
\* package of the returned selection has a possibility satisfied by a package
\* of the selection, directly (name and version constraint) or through a
\* virtual entry with a provider in the selection.
C1_SelectionClosed == Returned => Closed(selectedDB)

\* C2: when Resolve succeeds, every request of the input list has a matching
\* package in the returned selection (the name, and the version of a request
\* name=version); with a request unmatched Resolve does not return a
\* selection.
C2_EveryRequestMatched ==
    Returned =>
        \A i \in 1..Len(requests) :
            \E e \in Entries(selectedDB) : Matches(e, requests[i])

\* C3: when Resolve succeeds, every requested name is matched in the returned
\* selection by a concrete package that has the name or provides it, never
\* by a virtual entry only.
C3_RequestsMatchedConcretely ==
    Returned =>
        \A i \in 1..Len(requests) :
            \E e \in ConcreteEntries(selectedDB) :
                e.Package = requests[i].Name
                    \/ ProvidesName(e, requests[i].Name)

\* C4: in the returned selection, a name requested with a pinned version has
\* entries of that version only, and any other name has concrete packages of
\* at most one version, the highest version of the name among the candidates
\* that survived the first pruning.
C4_OneVersionPerName ==
    Returned =>
        \A e \in Entries(selectedDB) :
            IF e.Package \in DOMAIN requestedPackages
                   /\ requestedPackages[e.Package].Pinned
            THEN e.Version = requestedPackages[e.Package].Version
            ELSE ~e.IsVirtual =>
                     /\ \A o \in ConcreteNamed(selectedDB, e.Package) :
                            o.Version = e.Version
                     /\ \A o \in ConcreteNamed(candidateDB, e.Package) :
                            o.Version <= e.Version

\* Whether a candidate is a requested package: the version a request pins,
\* or the highest version the pool has of a name requested without one.
RequestedPackage(pkg) ==
    /\ pkg.Package \in DOMAIN requestedPackages
    /\ IF requestedPackages[pkg.Package].Pinned
       THEN pkg.Version = requestedPackages[pkg.Package].Version
       ELSE \A o \in ConcreteNamed(packageDB, pkg.Package) :
                o.Version <= pkg.Version

\* C5: an unsatisfiable dependency or an ambiguous virtual package of a
\* candidate is recoverable, the candidate is pruned: a candidate that is not
\* a requested package (an older version of a name requested without a
\* version, a dependency) does not make Resolve fail when its dependency
\* cannot be satisfied from the pool.
C5_DependencyErrorsRecoverable ==
    [][pc = "expand" /\ pc' = "failed" => RequestedPackage(Head(queue))]_vars

\* Whether a request cannot be located in the pool: a version that does not
\* parse, no entry of the name with exactly the version, no entry of the
\* name at all.
Unlocatable(pool, req) ==
    IF req.Pinned
    THEN \/ ~req.Parses
         \/ ~\E e \in Entries(pool) :
                e.Package = req.Name /\ e.Version = req.Version
    ELSE ~\E e \in Entries(pool) : e.Package = req.Name

\* C6: if a request cannot be located in the pool, Resolve returns an error
\* and no selection.
C6_UnlocatableRequestFails ==
    (\E i \in 1..Len(requests) : Unlocatable(packageDB, requests[i])) =>
        pc = "failed" /\ err # NoError /\ selectedDB = NewPackageDB

\* Resolve has failed on a request the pool cannot locate.
C6_Witness ==
    /\ pc = "failed"
    /\ \E i \in 1..Len(requests) : Unlocatable(packageDB, requests[i])

\* C7: when Resolve succeeds and every concrete package of its result is fed
\* back as a request name=version, the second Resolve succeeds and its
\* selection contains every (concrete) package of the first result.
C7_Idempotent ==
    run = 2 /\ pc \in {"done", "failed"} =>
        /\ pc = "done"
        /\ \A e \in ConcreteEntries(first) :
               \E o \in ConcreteEntries(selectedDB) : ID(o) = ID(e)

\* Whether an iteration of pruneUnsatisfied on db that does not end the loop
\* leaves db with fewer entries.
Shrinks(db) ==
    PruneList(db, ForEach(db)) # << >> =>
        DBLen(RemoveAll(db, PruneList(db, ForEach(db)))) < DBLen(db)

\* Whether the dependencies of every entry of db resolve with db as pool.
AllResolve(db) ==
    \A e \in Entries(db) : getDependencies(db, db, e).err = NoError

\* Where Resolve is in pruneUnsatisfied(candidateDB), in
\* pruneUnsatisfied(selectedDB), and after it.
PruningCandidates == pc \in {"expand", "prune"} /\ queue = << >>

PruningSelected == pc = "reprune"

Confirmed ==
    pc = "done" \/ (pc = "failed" /\ err = "requested package is not selected")

\* C8: pruneUnsatisfied terminates: every iteration that does not end the
\* loop removes at least one entry, so that the number of entries decreases
\* until a scan removes nothing, and on return the dependencies of every
\* remaining entry resolve with the database itself as pool.
C8_PruneTerminates ==
    /\ PruningCandidates => Shrinks(candidateDB)
    /\ PruningSelected => Shrinks(selectedDB) /\ AllResolve(candidateDB)
    /\ Confirmed => AllResolve(selectedDB)

\* pruneUnsatisfied(selectedDB) has returned after removing an entry.
C8_Witness ==
    /\ Confirmed
    /\ DBLen(selectedDB) <
           DBLen(SelectAll(NewPackageDB, requestedPackages,
                           ForEach(candidateDB)))

\* The concrete entries of db that provide the virtual package name, version.
ProvidersOf(db, name, version) ==
    {c \in ConcreteEntries(db) :
        \E possi \in Entries(Flatten(c.Provides)) :
            /\ possi.Name = name
            /\ VirtualFor(possi).Version = version}

\* C9: after any sequence of add, add_all and remove, a virtual entry
\* (v, vv) is in the database if and only if a concrete package stored
\* provides v with version vv (or with none), and its providers are exactly
\* those packages, each listed once.
C9_VirtualEntriesMatchProviders ==
    /\ \A e \in Entries(packageDB) :
           e.IsVirtual =>
               /\ ProvidersOf(packageDB, e.Package, e.Version) # {}
               /\ {ID(e.Providers[k]) : k \in 1..Len(e.Providers)}
                      = {ID(c) : c \in ProvidersOf(packageDB, e.Package,
                                                   e.Version)}
               /\ \A j, k \in 1..Len(e.Providers) :
                      ID(e.Providers[j]) = ID(e.Providers[k]) => j = k
    /\ \A c \in ConcreteEntries(packageDB) :
           \A possi \in Entries(Flatten(c.Provides)) :
               \E e \in Entries(packageDB) :
                   /\ e.IsVirtual
                   /\ e.Package = possi.Name
                   /\ e.Version = VirtualFor(possi).Version

\* The number of concrete entries of a database.
ConcreteCount(db) == Len(SelectSeq(db, LAMBDA e : ~e.IsVirtual))

\* C10: after any sequence of add, add_all and remove, the database holds at
\* most one entry per (name, version, architecture); adding a package whose
\* identity is stored replaces the entry and leaves the number of concrete
\* entries unchanged.
C10_OneEntryPerIdentity ==
    /\ [](\A i, j \in 1..Len(packageDB) :
              /\ ID(packageDB[i]) = ID(packageDB[j])
              /\ packageDB[i].IsVirtual = packageDB[j].IsVirtual
              => i = j)
    /\ [][\A n \in 1..Len(DBCatalogue) :
              /\ DBAdd(DBCatalogue[n])
              /\ \E e \in ConcreteEntries(packageDB) :
                     ID(e) = ID(DBCatalogue[n])
              => /\ ConcreteCount(packageDB') = ConcreteCount(packageDB)
                 /\ DBCatalogue[n] \in Entries(packageDB')]_vars

(***************************************************************************)
(* The queries and Remove, on the databases of SpecDB                      *)
(***************************************************************************)

\* The names and the versions the queries are asked with.
QueryNames == {"a", "b", "c", "v", "w"}

QueryVersions == {TildeVersion, ZeroVersion, 1, 2}

\* The set of the items of a list.
Items(s) == {s[i] : i \in 1..Len(s)}

\* The entries of db of a name, and those whose version is in a set.
Named(db, name) == {e \in Entries(db) : e.Package = name}

\* The virtual entries of db that list a provider of the identity of p.
ListedIn(db, p) ==
    {e \in Entries(db) :
        e.IsVirtual /\ \E k \in 1..Len(e.Providers) : ID(e.Providers[k]) = ID(p)}

\* C11: after Remove(p) of a package p stored in the database, p is in no
\* virtual entry's providers list, no virtual entry is left without
\* providers, and when p was the only provider of v, Get(v) is empty.
C11_RemoveDropsProvider ==
    [][\A n \in 1..Len(DBCatalogue) :
           /\ DBRemove(DBCatalogue[n])
           /\ DBCatalogue[n] \in Entries(packageDB)
           => /\ ListedIn(packageDB', DBCatalogue[n]) = {}
              /\ \A e \in Entries(packageDB') :
                     e.IsVirtual => Len(e.Providers) > 0
              /\ \A e \in Entries(packageDB) :
                     /\ e.IsVirtual
                     /\ Len(e.Providers) = 1
                     /\ ID(e.Providers[1]) = ID(DBCatalogue[n])
                     => Get(packageDB', e.Package) = << >>]_vars

\* C12: Get(name) returns exactly the entries whose name is name: every
\* concrete entry of the name whatever its version (also a version that
\* sorts before the empty version) and architecture, every virtual entry of
\* the name, and no entry of another name.
C12_GetReturnsTheName ==
    \A name \in QueryNames :
        Items(Get(packageDB, name)) = Named(packageDB, name)

\* C13: EarlierOrEqual(name, v) returns exactly the entries of the name
\* whose version is less than or equal to v, every entry of version v
\* included whatever its architecture.
C13_EarlierOrEqualExact ==
    \A name \in QueryNames : \A v \in QueryVersions :
        Items(EarlierOrEqual(packageDB, name, v))
            = {e \in Named(packageDB, name) : e.Version <= v}

\* Whether the versions of a list ascend.
Ascending(s) == \A i, j \in 1..Len(s) : i < j => s[i].Version <= s[j].Version

\* C14: LaterOrEqual, StrictlyLater and StrictlyEarlier (name, v) return
\* exactly the entries of the name whose version is >= v, > v and < v; the
\* strict queries never return an entry of version v, and LaterOrEqual and
\* StrictlyLater return the entries in ascending version order.
C14_RangeQueriesExact ==
    \A name \in QueryNames : \A v \in QueryVersions :
        /\ Items(LaterOrEqual(packageDB, name, v))
               = {e \in Named(packageDB, name) : e.Version >= v}
        /\ Items(StrictlyLater(packageDB, name, v))
               = {e \in Named(packageDB, name) : e.Version > v}
        /\ Items(StrictlyEarlier(packageDB, name, v))
               = {e \in Named(packageDB, name) : e.Version < v}
        /\ Ascending(LaterOrEqual(packageDB, name, v))
        /\ Ascending(StrictlyLater(packageDB, name, v))

\* C15: ExactlyEqual(name, v) reports found if and only if the database has
\* an entry of the name with a version equal to v, and the entry it returns
\* is an entry of the database with that name and that version.
C15_ExactlyEqualExact ==
    \A name \in QueryNames : \A v \in QueryVersions :
        /\ ExactlyEqual(packageDB, name, v) # << >>
               <=> \E e \in Named(packageDB, name) : e.Version = v
        /\ \A e \in Items(ExactlyEqual(packageDB, name, v)) :
               e \in Named(packageDB, name) /\ e.Version = v

\* ExactlyEqual finds a version of a name and misses another version of it.
C15_Witness ==
    \E name \in QueryNames : \E v, w \in QueryVersions :
        /\ ExactlyEqual(packageDB, name, v) # << >>
        /\ ExactlyEqual(packageDB, name, w) = << >>

\* Whether the identity of p is the identity of no concrete entry of db.
NotStored(db, p) == \A e \in ConcreteEntries(db) : ID(e) # ID(p)

\* C16: for a package p whose identity is not in the database, Add(p)
\* followed by Remove(p) restores the database: Len, every entry and every
\* virtual entry's providers list are as before the Add.
C16_AddRemoveRestores ==
    \A n \in 1..Len(DBCatalogue) :
        /\ NotStored(packageDB, DBCatalogue[n])
        /\ DBLen(Add(packageDB, DBCatalogue[n])) <= MaxItems
        => Remove(Add(packageDB, DBCatalogue[n]), DBCatalogue[n]) = packageDB

(***************************************************************************)
(* Component.Packages: the candidates, the hash check and the errors       *)
(***************************************************************************)

\* The lines of the message of a joined error: the errors joined, in the
\* order they were joined in.
RECURSIVE Causes(_)
Causes(e) ==
    IF e = Nil THEN << >>
    ELSE IF e.msg # "" THEN << e >>
    ELSE IF Len(e.errs) = 1 THEN Causes(e.errs[1])
    ELSE Causes(e.errs[1]) \o Causes(e.errs[2])

\* Packages has returned a package list.
ReturnedList == pc = "returned" /\ fetch.err = Nil

\* Packages has returned an error.
ReturnedError == pc = "returned" /\ fetch.err # Nil

\* The candidate requested last.
LastRequested == fetch.requested[Len(fetch.requested)]

\* A body decompresses and decodes.
Decodes(body) ==
    /\ Decompress(body).err = Nil
    /\ NewDecoder(Decompress(body).dr) = Nil
    /\ Decode(Decompress(body).dr).err = Nil

\* The Release states the hash of the bytes for the file.
HashStated(table, file, bytes) ==
    file \in DOMAIN table /\ table[file] = Sum256(bytes)

\* An answer with status 200 whose body decodes and has the stated hash.
Good(resp, file, table) ==
    /\ resp.err = Nil
    /\ resp.StatusCode = 200
    /\ Decodes(resp.Body)
    /\ HashStated(table, file, resp.Body)

\* C17: Packages returns a package list only if the SHA-256 of the bytes
\* read through the hash reader is the hash the Release states for the
\* file; on a mismatch (also for a file the table does not list) the decoded
\* list is discarded, the error is recorded and the loop goes on to the
\* next candidate.
C17_ListOnlyIfHashStated ==
    /\ [](ReturnedList =>
              HashStated(fetch.SHA256Sums, LastRequested, fetch.hr))
    /\ [][\A resp \in Responses :
              /\ TryCandidate(resp)
              /\ resp.err = Nil
              /\ resp.StatusCode = 200
              /\ Decodes(resp.Body)
              /\ ~HashStated(fetch.SHA256Sums, Names[fetch.name], resp.Body)
              => /\ pc' = "packages"
                 /\ fetch'.packageList = << >>
                 /\ fetch'.name = fetch.name + 1
                 /\ Causes(fetch'.errs) =
                        Append(Causes(fetch.errs),
                               Errorf("failed to verify file",
                                      Names[fetch.name],
                                      New("hash mismatch")))]_vars

\* A list is returned after a candidate failed its hash check.
C17_Witness ==
    /\ ReturnedList
    /\ \E i \in 1..Len(Causes(fetch.errs)) :
           Causes(fetch.errs)[i].msg = "failed to verify file"

\* C18: Packages requests Packages.xz, then Packages.gz, then Packages; it
\* requests a candidate only after the one before failed, and it returns
\* the list of the first candidate that downloads with status 200, decodes
\* and passes the hash check, without a request for a later candidate.
C18_CandidatesInOrder ==
    /\ [](/\ Len(fetch.requested) <= 3
          /\ \A i \in 1..Len(fetch.requested) :
                 fetch.requested[i] =
                     << "Packages.xz", "Packages.gz", "Packages" >>[i]
          /\ ReturnedList =>
                 /\ Good(fetch.resp, LastRequested, fetch.SHA256Sums)
                 /\ fetch.packageList =
                        WithURLs(Decode(Decompress(fetch.resp.Body).dr)
                                     .packageList))
    /\ [][/\ fetch'.requested # fetch.requested =>
                 /\ pc = "packages"
                 /\ \/ fetch.requested = << >>
                    \/ ~Good(fetch.resp, LastRequested, fetch.SHA256Sums)
          /\ \A resp \in Responses :
                 /\ TryCandidate(resp)
                 /\ Good(resp, Names[fetch.name], fetch.SHA256Sums)
                 => pc' = "returned" /\ fetch'.err = Nil]_vars

\* The third candidate's list is returned after two candidates failed.
C18_Witness == ReturnedList /\ Len(fetch.requested) = 3

\* C19: when the context is cancelled during a candidate's request,
\* Packages returns the cancellation and attempts no further candidate.
C19_CancellationTerminal ==
    [][/\ \A resp \in Responses :
              TryCandidate(resp) /\ resp.err = Canceled
              => pc' = "returned" /\ fetch'.err # Nil
       /\ fetch.ctx = "canceled" => fetch'.requested = fetch.requested]_vars

\* C20: if all three candidates fail, Packages returns no package list and
\* a single error that aggregates one recorded cause per failed attempt, in
\* the order of the attempts.
C20_ErrorsAggregated ==
    /\ [](ReturnedError =>
              /\ fetch.packageList = << >>
              /\ Len(fetch.requested) = 3
              /\ fetch.err.errs = << fetch.errs >>
              /\ Len(Causes(fetch.errs)) = 3
              /\ \A i \in 1..3 :
                     Causes(fetch.errs)[i].file \in {fetch.requested[i], ""})
    /\ [][\A resp \in Responses :
              /\ TryCandidate(resp)
              /\ ~Good(resp, Names[fetch.name], fetch.SHA256Sums)
              => /\ Len(Causes(fetch'.errs)) = Len(Causes(fetch.errs)) + 1
                 /\ SubSeq(Causes(fetch'.errs), 1, Len(Causes(fetch.errs)))
                        = Causes(fetch.errs)
                 /\ resp.err # Nil =>
                        Causes(fetch'.errs)[Len(Causes(fetch'.errs))] =
                            Errorf("failed to download file",
                                   Names[fetch.name], resp.err)]_vars

\* Three candidates failed for three reasons and the error is returned.
C20_Witness ==
    /\ ReturnedError
    /\ Len(Causes(fetch.errs)) = 3
    /\ Causes(fetch.errs)[1].msg = "failed to download file"
    /\ Causes(fetch.errs)[2].msg = "failed to decompress file"
    /\ Causes(fetch.errs)[3].msg = "failed to verify file"

\* C27: Decompress selects the decoder from the leading bytes: a stream
\* that starts with 1F 8B is decoded as gzip, one that starts with
\* FD 37 7A 58 5A 00 as xz, and every other stream, whatever its length
\* (streams of less than eight bytes included), is passed through with its
\* bytes unchanged. Stated of the body the HashReader of the last attempt
\* wrapped.
C27_DecompressSniffs ==
    fetch.resp.StatusCode = 200 =>
        Decompress(fetch.hr) =
            IF HasPrefix(fetch.hr, << 31, 139 >>)
            THEN GzipNewReader(fetch.hr)
            ELSE IF HasPrefix(fetch.hr, << 253, 55, 122, 88, 90, 0 >>)
            THEN XzNewReader(fetch.hr)
            ELSE [err |-> Nil, dr |-> fetch.hr]

(***************************************************************************)
(* Source.Components: the signer and the Components                        *)
(***************************************************************************)

\* Components has returned without an error.
SourceReturned == pc = "returned" /\ source.emitted.err = Nil

\* C21: Components emits Components only if the InRelease document carried
\* a signature that verifies against the keyring; when the decoder reports
\* no signer it returns an error and no Component, and the signer is
\* checked before a field of the Release is decoded or used.
C21_SignedOnly ==
    /\ source.emitted.components # << >> =>
           source.decoder.signature = "valid"
    /\ source.release # NoRelease => source.decoder.signature = "valid"
    /\ /\ pc \in {"decode", "returned"}
       /\ source.decoder # NoDocument
       /\ source.decoder.signature # "valid"
       => /\ pc = "returned"
          /\ source.emitted.err # Nil
          /\ source.emitted.components = << >>

\* Components are returned for a signed document.
C21_Witness == SourceReturned /\ Len(source.emitted.components) > 1

\* The components and the architectures of the Release the Components are
\* for.
WantedComponents ==
    {c \in Items(source.release.Components) :
        c = "main" \/ c \in Items(source.components)}

WantedArchs ==
    {a \in Items(source.release.Architectures) :
        a = "all" \/ ArchIs(a, source.targetArch)}

\* The first place of x in a list.
FirstAt(s, x) == CHOOSE i \in 1..Len(s) : s[i] = x /\ \A j \in 1..i - 1 : s[j] # x

\* C22: on success Components returns exactly one Component for each pair
\* of a component of the Release that is configured or main and an
\* architecture of the Release that matches the target or is all, and no
\* other Component, component-major and each in the Release's order.
C22_OneComponentPerPair ==
    SourceReturned /\ source.release # NoRelease =>
        /\ \A c \in WantedComponents : \A a \in WantedArchs :
               Cardinality({i \in 1..Len(source.emitted.components) :
                               /\ source.emitted.components[i].Name = c
                               /\ source.emitted.components[i].Arch = a}) = 1
        /\ \A i \in 1..Len(source.emitted.components) :
               /\ source.emitted.components[i].Name \in WantedComponents
               /\ source.emitted.components[i].Arch \in WantedArchs
        /\ \A i, j \in 1..Len(source.emitted.components) :
               i < j =>
                   \/ FirstAt(source.release.Components,
                              source.emitted.components[i].Name)
                          < FirstAt(source.release.Components,
                                    source.emitted.components[j].Name)
                   \/ /\ source.emitted.components[i].Name
                             = source.emitted.components[j].Name
                      /\ FirstAt(source.release.Architectures,
                                 source.emitted.components[i].Arch)
                             < FirstAt(source.release.Architectures,
                                       source.emitted.components[j].Arch)

\* A list that names nothing twice.
NoDuplicates(l) == \A i, j \in 1..Len(l) : l[i] = l[j] => i = j

\* C22, for a Release whose Architectures and Components name nothing
\* twice: on success Components returns exactly one Component for each pair
\* of a wanted component and a wanted architecture and no other,
\* component-major and each in the Release's order.
C22_OneComponentPerDistinctPair ==
    /\ NoDuplicates(source.release.Architectures)
    /\ NoDuplicates(source.release.Components)
    => C22_OneComponentPerPair

\* Two components times two architectures are returned, four Components.
C22_Witness ==
    /\ SourceReturned
    /\ NoDuplicates(source.release.Architectures)
    /\ NoDuplicates(source.release.Components)
    /\ Len(source.emitted.components) = 4

\* loadPackages has returned a database.
Loaded == load.stage = "returned" /\ load.ret.err = Nil

\* The package lists of the components of every source, in the order of the
\* configuration.
RECURSIVE ListsFrom(_, _)
ListsFrom(repos, i) ==
    IF i > Len(repos) THEN << >>
    ELSE [k \in 1..Len(repos[i].list) |-> repos[i].list[k].packages.list]
             \o ListsFrom(repos, i + 1)

\* The database after AddAll of each of the lists, in their order.
RECURSIVE Merged(_, _)
Merged(db, lists) ==
    IF lists = << >> THEN db
    ELSE Merged(AddAll(db, Head(lists)), Tail(lists))

\* The entries of a database with their content, the providers of a virtual
\* entry as a set.
Content(db) ==
    { [db[i] EXCEPT !.Providers = Items(@)] : i \in 1..Len(db) }

\* C23: the database loadPackages returns has the entries, the content and
\* the providers of the database merged in the order of the configuration,
\* whatever order the workers ended in, and adding the list of any
\* component again does not change it.
C23_MergeOrderIndependent ==
    Loaded =>
        /\ Content(load.packageDB)
               = Content(Merged(NewPackageDB, ListsFrom(load.repos, 1)))
        /\ \A j \in 1..Len(load.components) :
               Content(AddAll(load.packageDB,
                              load.components[j].packages.list))
                   = Content(load.packageDB)

\* Every worker of a group has returned.
Terminated(worker) ==
    \A i \in 1..Len(worker) : worker[i] \in {"done", "failed"}

\* loadPackages has returned, with an error or not.
LoadReturned == load.stage \in {"returned", "exited", "resolving"}

\* C24: Packages is called only when every source's worker has ended and
\* all of them without an error; if a source failed, Packages is never
\* called and loadPackages returns an error.
C24_StageBarrier ==
    /\ (load.stage = "packages" \/ load.calls > 0) =>
           /\ Len(load.joined) = Len(load.repos)
           /\ \A i \in 1..Len(load.joined) : load.joined[i] = "done"
    /\ (load.stage = "sources" /\ load.failures # << >>) => load.calls = 0
    /\ (LoadReturned /\ \E i \in 1..Len(load.joined) :
                            load.joined[i] # "done") =>
           /\ load.calls = 0
           /\ load.ret.err # Nil

\* Of two sources one has listed its components and one has failed, and
\* loadPackages has returned.
C24_Witness ==
    /\ load.stage = "returned"
    /\ load.joined = << "done", "failed" >>
    /\ load.components # << >>
    /\ load.calls = 0

\* C25: the first error of a worker cancels the context of its stage;
\* loadPackages returns an error only when every worker of the stage has
\* ended, the error wraps the first one a worker returned and no database
\* comes with it; the resolver is made only from a database to which every
\* component's list has been added.
C25_FailFast ==
    /\ load.failures # << >> => load.ctx = "canceled"
    /\ (LoadReturned /\ load.ret.err # Nil) =>
           /\ Terminated(load.worker)
           /\ load.failures # << >>
           /\ load.ret.err.errs = << load.failures[1] >>
           /\ load.ret.nilDB
    /\ load.stage = "resolving" =>
           /\ load.ret.err = Nil
           /\ Items(load.order) = 1..Len(load.components)
           /\ load.pool = load.packageDB

\* A worker of the second stage failed after another had added its list,
\* the workers after it were cancelled, and loadPackages has returned.
C25_Witness ==
    /\ load.stage = "returned"
    /\ load.calls > 0
    /\ Len(load.failures) >= 2
    /\ load.failures[1] # load.failures[2]
    /\ load.packageDB # NewPackageDB
    /\ load.ret.nilDB

\* The concrete packages of a list that the database does not hold under
\* their name, version and architecture.
Lost(db, list) ==
    { k \in 1..Len(list) :
          ~\E n \in 1..Len(db) :
                ~db[n].IsVirtual /\ ID(db[n]) = ID(list[k]) }

\* C26: at most one worker is inside AddAll; whenever the write lock is
\* free (when a query under the read lock runs) the database is the result
\* of whole AddAll calls, those that have ended, in their order; and the
\* database loadPackages returns holds every package of every list.
C26_ExclusiveWrites ==
    /\ Cardinality({ j \in 1..Len(load.worker) :
                         load.worker[j] \in {"adding", "inserted"} }) <= 1
    /\ (load.calls > 0 /\ load.mu = 0) =>
           load.packageDB
               = Merged(NewPackageDB,
                        [n \in 1..Len(load.order) |->
                             load.components[load.order[n]].packages.list])
    /\ Loaded =>
           \A j \in 1..Len(load.components) :
               Lost(load.packageDB, load.components[j].packages.list) = {}

\* C28: every package getDependencies returns is concrete.
C28_DependenciesConcrete ==
    \A n \in 1..Len(dependencies.out.deps) :
        ~dependencies.out.deps[n].IsVirtual

\* What a possibility yields: the packages of the pool it names, a virtual
\* one replaced by the provider it resolves to.
Yield(possi) ==
    ResolvedPackages(packageDB, dependencies.candidateDB,
                     PackageList(packageDB, possi))

\* The possibilities of a relation that yield something, by position.
Yielding(rel) ==
    { k \in 1..Len(rel.Possibilities) : Yield(rel.Possibilities[k]) # << >> }

\* The yield of the first possibility of a relation that yields something.
FirstYield(rel) ==
    Yield(rel.Possibilities[
              CHOOSE k \in Yielding(rel) : \A n \in Yielding(rel) : k <= n])

\* The first yields of the relations, one after the other.
RECURSIVE FirstYields(_)
FirstYields(relations) ==
    IF relations = << >> THEN << >>
    ELSE FirstYield(Head(relations)) \o FirstYields(Tail(relations))

\* The relations getDependencies was called about.
CalledRelations == dependencies.pkg.PreDepends \o dependencies.pkg.Depends

\* C30: getDependencies returns, relation by relation, what the first
\* possibility that yields something yields, and nothing of the later
\* alternatives; if no possibility of a relation yields anything it returns
\* the unsatisfiable-dependency error and no list.
C30_FirstAlternativeOnly ==
    dependencies.called =>
        IF \A n \in 1..Len(CalledRelations) :
               Yielding(CalledRelations[n]) # {}
        THEN /\ dependencies.out.err = NoError
             /\ dependencies.out.deps = FirstYields(CalledRelations)
        ELSE /\ dependencies.out.err = "unsatisfiable dependency"
             /\ dependencies.out.deps = << >>

\* getDependencies was asked about a 1 (Depends: v | b) in a pool where v
\* and b both yield something, and has returned.
C30_Witness ==
    /\ dependencies.called
    /\ dependencies.pkg.Package = "a"
    /\ Yield(Just("v")) # << >>
    /\ Len(Yield(Just("b"))) = 2
    /\ dependencies.out.err = NoError

\* Whether a relation has a possibility with the operator << or >>.
Strict(rel) ==
    \E possi \in Entries(rel.Possibilities) : possi.Operator \in {"<<", ">>"}

\* C29: when Resolve succeeds, every relation with << or >> of a package of
\* the returned selection is satisfied within the selection in the strict
\* meaning: by an entry of a version strictly earlier, respectively strictly
\* later, than the version of the constraint.
C29_StrictRelationsNarrowed ==
    Returned =>
        \A p \in ConcreteEntries(selectedDB) :
            \A k \in 1..Len(p.PreDepends \o p.Depends) :
                Strict((p.PreDepends \o p.Depends)[k]) =>
                    \E possi \in Entries((p.PreDepends \o p.Depends)[k]
                                             .Possibilities) :
                        SatisfiedIn(selectedDB, possi)

\* The packages of a list that a database holds as concrete entries, under
\* their name, version and architecture.
RECURSIVE PresentIn(_, _)
PresentIn(db, pkgs) ==
    IF pkgs = << >> THEN << >>
    ELSE (IF \E e \in ConcreteEntries(db) : ID(e) = ID(Head(pkgs))
          THEN << Head(pkgs) >> ELSE << >>)
         \o PresentIn(db, Tail(pkgs))

\* The choice among providers present in the pool, as the rule states it:
\* [err, pkg].
Preferred(present, selected, required) ==
    IF present = << >>
    THEN [err |-> "unsatisfiable dependency", pkg |-> NoPackage]
    ELSE IF Len(present) = 1 THEN [err |-> NoError, pkg |-> present[1]]
    ELSE IF selected # << >> THEN [err |-> NoError, pkg |-> selected[1]]
    ELSE IF required # << >> THEN [err |-> NoError, pkg |-> required[1]]
    ELSE [err |-> "virtual package with multiple installation candidates",
          pkg |-> NoPackage]

\* C31: for every virtual entry of the pool and every candidate set,
\* resolveVirtualPackage fails when no provider is present in the pool,
\* returns the provider when exactly one is, and of two or more returns the
\* first that is in the candidate set, else the first of priority required,
\* else fails as ambiguous.
C31_ProviderChoice ==
    \A virt \in Entries(packageDB) :
        virt.IsVirtual =>
            resolveVirtualPackage(packageDB, candidateDB, virt)
                = Preferred(PresentIn(packageDB, virt.Providers),
                            PresentIn(candidateDB,
                                PresentIn(packageDB, virt.Providers)),
                            Required(PresentIn(packageDB, virt.Providers)))

\* The IDs of the entries of the pool.
PoolIDs == { ID(e) : e \in Entries(packageDB) }

\* C32: an iteration of the expansion either expands a package whose ID was
\* not visited, marks it and leaves every dependency returned for it in the
\* candidate set, or drops a visited package from the queue; the visited
\* IDs are IDs of the pool, so the loop ends after at most as many
\* expansions as the pool has entries, cycles or not.
C32_ExpansionTerminates ==
    [][pc = "expand" =>
          \/ /\ ID(Head(queue)) \notin visited
             /\ visited' = visited \cup {ID(Head(queue))}
             /\ visited' \subseteq PoolIDs
             /\ pc' = "expand" =>
                    \A n \in 1..Len(getDependencies(packageDB, candidateDB,
                                                    Head(queue)).deps) :
                        getDependencies(packageDB, candidateDB,
                                        Head(queue)).deps[n]
                            \in Entries(candidateDB')
          \/ /\ ID(Head(queue)) \in visited
             /\ visited' = visited
             /\ Len(queue') < Len(queue)]_vars

\* The components the sources of the configuration return.
RECURSIVE ComponentsFrom(_, _)
ComponentsFrom(repos, i) ==
    IF i > Len(repos) THEN << >>
    ELSE repos[i].list \o ComponentsFrom(repos, i + 1)

\* The first stage of loadPackages has ended without an error.
Enumerated ==
    /\ load.joined # << >>
    /\ \A i \in 1..Len(load.joined) : load.joined[i] = "done"

\* C33: when the first stage has succeeded, the shared list holds the
\* components of every source, each once, in whatever order the workers
\* appended them.
C33_NoAppendLost ==
    Enumerated =>
        /\ Len(load.components) = Len(ComponentsFrom(load.repos, 1))
        /\ Items(load.components) = Items(ComponentsFrom(load.repos, 1))
        /\ NoDuplicates(load.components)

\* Two sources with components, the second source's appended first.
C33_Witness ==
    /\ Enumerated
    /\ Len(load.components) >= 3
    /\ load.components[1].source = 2

\* The entries of before that an operation on p must leave alone: the
\* concrete ones of another name, version or architecture, and the virtual
\* ones p's Provides do not name.
Framed(before, p) ==
    { e \in Entries(before) :
          IF e.IsVirtual
          THEN \A possi \in Entries(Flatten(p.Provides)) :
                   ID(VirtualFor(possi)) # ID(e)
          ELSE ID(e) # ID(p) }

\* C34: Add(p) and Remove(p) leave every other entry of the database as it
\* was: the concrete entries whose name, version or architecture differ
\* from p's and the virtual entries p does not provide.
C34_AddRemoveFrame ==
    \A k \in 1..Len(DBCatalogue) :
        /\ Framed(packageDB, DBCatalogue[k])
               \subseteq Entries(Add(packageDB, DBCatalogue[k]))
        /\ Framed(packageDB, DBCatalogue[k])
               \subseteq Entries(Remove(packageDB, DBCatalogue[k]))

\* The packages Compare is asked about: those of the catalogue and the
\* entries of the database.
Compared == Items(DBCatalogue) \cup Entries(packageDB)

\* C35: Compare is a consistent ordering: Compare(a, b) and Compare(b, a)
\* have opposite signs, Compare = 0 is transitive and so is Compare < 0,
\* architectures that match several others included.
C35_CompareConsistent ==
    \A a, b \in Compared :
        /\ Compare(a, b) = 0 - Compare(b, a)
        /\ \A c \in Compared :
               /\ (Compare(a, b) = 0 /\ Compare(b, c) = 0)
                      => Compare(a, c) = 0
               /\ (Compare(a, b) < 0 /\ Compare(b, c) < 0)
                      => Compare(a, c) < 0

C37_PoolUnchanged == [][pc # "load" => packageDB' = packageDB]_vars

\* A call has ended, with success or failure, after insertions into and
\* removals from its candidates: the candidates are neither the pool nor
\* empty, and a candidate was pruned or the call failed.
C37_Witness ==
    /\ pc \in {"done", "failed"}
    /\ Len(candidateDB) > 0
    /\ Entries(candidateDB) # Entries(packageDB)
    /\ \/ pc = "failed"
       \/ Entries(selectedDB) # Entries(candidateDB)

\* C38: with the candidates as pool and as candidate set, as in the two
\* pruning phases, resolveVirtualPackage does not fail as ambiguous: a
\* virtual entry with a provider present in the database resolves to the
\* first such provider, and one with no provider present fails.
C38_PruningResolvesFirst ==
    \A virt \in Entries(candidateDB) :
        virt.IsVirtual =>
            resolveVirtualPackage(candidateDB, candidateDB, virt)
                = IF PresentIn(candidateDB, virt.Providers) # << >>
                  THEN [err |-> NoError,
                        pkg |-> PresentIn(candidateDB, virt.Providers)[1]]
                  ELSE [err |-> "unsatisfiable dependency",
                        pkg |-> NoPackage]

\* What a call that has ended returned: [err, db].
Outcome ==
    [err |-> err, db |-> IF pc = "done" THEN selectedDB ELSE NewPackageDB]

\* A call on a list of two requests of different names has ended.
EndedOnTwo ==
    /\ pc \in {"done", "failed"}
    /\ Len(requests) = 2
    /\ requests[1].Name # requests[2].Name

\* The same requests in the other order.
Swapped == << requests[2], requests[1] >>

\* The entries of a database, the providers of a virtual entry as a set.
Unordered(db) ==
    { [e EXCEPT !.Providers = Items(e.Providers)] : e \in Entries(db) }

\* C39 (amended): a call on two requests of different names and the call on
\* the same requests in the other order both fail or both succeed, and then
\* with the same entries in the selection, the providers of a virtual entry
\* taken as a set; the steps of a call compute what Resolve as a whole does.
C39_OrderIndependent ==
    EndedOnTwo =>
        /\ Outcome = Resolve(packageDB, requests)
        /\ (Resolve(packageDB, Swapped).err = NoError) = (pc = "done")
        /\ Unordered(Resolve(packageDB, Swapped).db) = Unordered(Outcome.db)

\* C39 as stated: the two calls both fail, or both succeed with the same
\* selection, the lists of providers of its virtual entries included.
C39_SameSelection ==
    EndedOnTwo =>
        /\ (Resolve(packageDB, Swapped).err = NoError) = (pc = "done")
        /\ Resolve(packageDB, Swapped).db = Outcome.db

\* A call on two requests of different names has succeeded, with a virtual
\* entry of two providers in its selection.
C39_Witness ==
    /\ EndedOnTwo
    /\ pc = "done"
    /\ \E e \in Entries(selectedDB) : e.IsVirtual /\ Len(e.Providers) >= 2

=============================================================================
